---- MODULE Spec2Model ----
(***************************************************************************)
(* asahi-map: interception, remapping and re-injection of keyboard events. *)
(*                                                                         *)
(* The module models the Handler (internal/handler), the modifier tracker  *)
(* KeyState (internal/keyboard/events.go), the KeyLookup with its dead-key *)
(* composer (internal/mappings), the VirtualKeyboard injection protocols   *)
(* and the life cycle of main (cmd/asahi-map): device discovery, grabbing, *)
(* reader tasks, the shared queue, cancellation and the exit paths.        *)
(*                                                                         *)
(* Spec         drives the Handler directly with key events, SetEnabled    *)
(*              and SetLayout calls.                                       *)
(* SpecEnabled  the same without SetEnabled.                               *)
(* SpecCompose  the same with the keys the dead-key composer is offered.   *)
(* SpecConc     the same with handleEvent in two steps, the snapshot and   *)
(*              its use, the calls of the other task in between.           *)
(* MainSpec     runs main from the creation of the virtual keyboard to the *)
(*              end of the process.                                        *)
(* MainFairSpec the same with the tray, under fair scheduling of the       *)
(*              consumer and of the readers' sends.                        *)
(***************************************************************************)
EXTENDS Integers, Sequences, FiniteSets, TLC

(***************************************************************************)
(* Key codes (linux/input-event-codes.h).                                  *)
(***************************************************************************)
KEY_LEFTSHIFT == 42
KEY_RIGHTSHIFT == 54
KEY_LEFTCTRL == 29
KEY_RIGHTCTRL == 97
KEY_LEFTALT == 56
KEY_RIGHTALT == 100
KEY_LEFTMETA == 125
KEY_RIGHTMETA == 126

KEY_1 == 2
KEY_2 == 3
KEY_3 == 4
KEY_4 == 5
KEY_5 == 6
KEY_6 == 7
KEY_7 == 8
KEY_8 == 9
KEY_9 == 10
KEY_0 == 11
KEY_Q == 16
KEY_E == 18
KEY_U == 22
KEY_D == 32
KEY_F == 33
KEY_X == 45
KEY_C == 46
KEY_B == 48
KEY_P == 25
KEY_A == 30
KEY_L == 38
KEY_SEMICOLON == 39
KEY_Z == 44
KEY_M == 50
KEY_DOT == 52
KEY_SLASH == 53
KEY_SPACE == 57
KEY_CAPSLOCK == 58

\* KeyCodeToName: the symbolic names of the key codes; a code outside the
\* domain has no name.
KeyCodeToName ==
  [c \in {2, 3, 4, 5, 6, 7, 8, 9, 10, 11, 12, 13,
            16, 17, 18, 19, 20, 21, 22, 23, 24, 25, 26, 27,
            30, 31, 32, 33, 34, 35, 36, 37, 38, 39, 40, 41,
            43, 44, 45, 46, 47, 48, 49, 50, 51, 52, 53, 57,
            86} |->
    CASE c = 2 -> "1"
      [] c = 3 -> "2"
      [] c = 4 -> "3"
      [] c = 5 -> "4"
      [] c = 6 -> "5"
      [] c = 7 -> "6"
      [] c = 8 -> "7"
      [] c = 9 -> "8"
      [] c = 10 -> "9"
      [] c = 11 -> "0"
      [] c = 12 -> "minus"
      [] c = 13 -> "equal"
      [] c = 16 -> "q"
      [] c = 17 -> "w"
      [] c = 18 -> "e"
      [] c = 19 -> "r"
      [] c = 20 -> "t"
      [] c = 21 -> "y"
      [] c = 22 -> "u"
      [] c = 23 -> "i"
      [] c = 24 -> "o"
      [] c = 25 -> "p"
      [] c = 26 -> "leftbrace"
      [] c = 27 -> "rightbrace"
      [] c = 30 -> "a"
      [] c = 31 -> "s"
      [] c = 32 -> "d"
      [] c = 33 -> "f"
      [] c = 34 -> "g"
      [] c = 35 -> "h"
      [] c = 36 -> "j"
      [] c = 37 -> "k"
      [] c = 38 -> "l"
      [] c = 39 -> "semicolon"
      [] c = 40 -> "apostrophe"
      [] c = 41 -> "grave"
      [] c = 43 -> "backslash"
      [] c = 44 -> "z"
      [] c = 45 -> "x"
      [] c = 46 -> "c"
      [] c = 47 -> "v"
      [] c = 48 -> "b"
      [] c = 49 -> "n"
      [] c = 50 -> "m"
      [] c = 51 -> "comma"
      [] c = 52 -> "dot"
      [] c = 53 -> "slash"
      [] c = 57 -> "space"
      [] c = 86 -> "102nd"]

\* The scalars of a key name, as `for _, r := range name` yields them.
NameRunes(name) ==
    CASE name = "1" -> <<49>>
      [] name = "2" -> <<50>>
      [] name = "3" -> <<51>>
      [] name = "4" -> <<52>>
      [] name = "5" -> <<53>>
      [] name = "6" -> <<54>>
      [] name = "7" -> <<55>>
      [] name = "8" -> <<56>>
      [] name = "9" -> <<57>>
      [] name = "0" -> <<48>>
      [] name = "minus" -> <<109, 105, 110, 117, 115>>
      [] name = "equal" -> <<101, 113, 117, 97, 108>>
      [] name = "q" -> <<113>>
      [] name = "w" -> <<119>>
      [] name = "e" -> <<101>>
      [] name = "r" -> <<114>>
      [] name = "t" -> <<116>>
      [] name = "y" -> <<121>>
      [] name = "u" -> <<117>>
      [] name = "i" -> <<105>>
      [] name = "o" -> <<111>>
      [] name = "p" -> <<112>>
      [] name = "leftbrace" -> <<108, 101, 102, 116, 98, 114, 97, 99, 101>>
      [] name = "rightbrace" -> <<114, 105, 103, 104, 116, 98, 114, 97, 99, 101>>
      [] name = "a" -> <<97>>
      [] name = "s" -> <<115>>
      [] name = "d" -> <<100>>
      [] name = "f" -> <<102>>
      [] name = "g" -> <<103>>
      [] name = "h" -> <<104>>
      [] name = "j" -> <<106>>
      [] name = "k" -> <<107>>
      [] name = "l" -> <<108>>
      [] name = "semicolon" -> <<115, 101, 109, 105, 99, 111, 108, 111, 110>>
      [] name = "apostrophe" -> <<97, 112, 111, 115, 116, 114, 111, 112, 104, 101>>
      [] name = "grave" -> <<103, 114, 97, 118, 101>>
      [] name = "backslash" -> <<98, 97, 99, 107, 115, 108, 97, 115, 104>>
      [] name = "z" -> <<122>>
      [] name = "x" -> <<120>>
      [] name = "c" -> <<99>>
      [] name = "v" -> <<118>>
      [] name = "b" -> <<98>>
      [] name = "n" -> <<110>>
      [] name = "m" -> <<109>>
      [] name = "comma" -> <<99, 111, 109, 109, 97>>
      [] name = "dot" -> <<100, 111, 116>>
      [] name = "slash" -> <<115, 108, 97, 115, 104>>
      [] name = "space" -> <<115, 112, 97, 99, 101>>
      [] name = "102nd" -> <<49, 48, 50, 110, 100>>
      [] OTHER -> <<>>

NameToKeyCode(name) == CHOOSE c \in DOMAIN KeyCodeToName : KeyCodeToName[c] = name

KnownNames == {KeyCodeToName[c] : c \in DOMAIN KeyCodeToName}

(***************************************************************************)
(* Modifier tracker (KeyState).                                            *)
(***************************************************************************)
IsPress_OrRepeat(ev) == ev.Value \in {1, 2}
IsPress(ev) == ev.Value = 1
IsRelease(ev) == ev.Value = 0

IsModifier_NoRightAlt(code) ==
    code \in {KEY_LEFTALT, KEY_LEFTSHIFT, KEY_RIGHTSHIFT, KEY_LEFTCTRL,
              KEY_RIGHTCTRL, KEY_LEFTMETA, KEY_RIGHTMETA}

IsModifier(code) ==
    code \in {KEY_LEFTALT, KEY_RIGHTALT, KEY_LEFTSHIFT, KEY_RIGHTSHIFT,
              KEY_LEFTCTRL, KEY_RIGHTCTRL, KEY_LEFTMETA, KEY_RIGHTMETA}

NewKeyState ==
    [LeftAlt |-> FALSE, RightAlt |-> FALSE, LeftShift |-> FALSE, RightShift |-> FALSE,
     LeftCtrl |-> FALSE, RightCtrl |-> FALSE, LeftMeta |-> FALSE, RightMeta |-> FALSE]

\* The field of KeyState a modifier code is tracked in.
ModifierField(code) ==
    CASE code = KEY_LEFTALT -> "LeftAlt"
      [] code = KEY_RIGHTALT -> "RightAlt"
      [] code = KEY_LEFTSHIFT -> "LeftShift"
      [] code = KEY_RIGHTSHIFT -> "RightShift"
      [] code = KEY_LEFTCTRL -> "LeftCtrl"
      [] code = KEY_RIGHTCTRL -> "RightCtrl"
      [] code = KEY_LEFTMETA -> "LeftMeta"
      [] code = KEY_RIGHTMETA -> "RightMeta"

TrackedCodes ==
    {KEY_LEFTALT, KEY_RIGHTALT, KEY_LEFTSHIFT, KEY_RIGHTSHIFT,
     KEY_LEFTCTRL, KEY_RIGHTCTRL, KEY_LEFTMETA, KEY_RIGHTMETA}

UpdateFromEvent_RepeatSets(ks, ev) ==
    IF ev.Code \notin TrackedCodes THEN ks
    ELSE IF IsRelease(ev) THEN [ks EXCEPT ![ModifierField(ev.Code)] = FALSE]
    ELSE [ks EXCEPT ![ModifierField(ev.Code)] = TRUE]

UpdateFromEvent(ks, ev) ==
    IF ev.Code \notin TrackedCodes THEN ks
    ELSE IF IsPress(ev) THEN [ks EXCEPT ![ModifierField(ev.Code)] = TRUE]
    ELSE IF IsRelease(ev) THEN [ks EXCEPT ![ModifierField(ev.Code)] = FALSE]
    ELSE ks

LeftAltPressed(ks) == ks.LeftAlt
ShiftPressed(ks) == ks.LeftShift \/ ks.RightShift

(***************************************************************************)
(* Mappings, layouts and the KeyLookup.  A string that is typed is held as *)
(* the sequence of its scalars; key names and dead-key ids are strings.    *)
(***************************************************************************)
Nil == [nil |-> TRUE]
NoTable == [n \in {} |-> Nil]

MPassthrough(target) ==
    [Char |-> <<>>, Codepoint |-> 0, IsDeadKey |-> FALSE, DeadKeyID |-> "", Passthrough |-> target]
MChar(runes) ==
    [Char |-> runes, Codepoint |-> 0, IsDeadKey |-> FALSE, DeadKeyID |-> "", Passthrough |-> ""]
MCodepoint(cp) ==
    [Char |-> <<>>, Codepoint |-> cp, IsDeadKey |-> FALSE, DeadKeyID |-> "", Passthrough |-> ""]
MDeadKey(id, runes) ==
    [Char |-> runes, Codepoint |-> 0, IsDeadKey |-> TRUE, DeadKeyID |-> id, Passthrough |-> ""]

\* U+00B4 ACUTE ACCENT, U+00E9 e with acute, U+20AC euro sign, U+0060 GRAVE
\* ACCENT; 960 is U+03C0, Greek pi
Acute == <<180>>
EAcute == <<233>>
Euro == <<8364>>
Grave == <<96>>

\* The layout of the README: passthrough on "5" in both tables, the dead key
\* acute on Alt-e, and a code point on Shift-Alt-e.
LayoutAzerty ==
    [Alt |-> ("5" :> MPassthrough("5") @@ "e" :> MDeadKey("acute", Acute)),
     ShiftAlt |-> ("5" :> MPassthrough("5") @@ "e" :> MCodepoint(960)),
     DeadKeys |-> ("acute" :> [Base |-> Acute, Combinations |-> ("e" :> EAcute)])]

\* A second layout: one direct character, and a dead-key mapping whose id
\* names no definition of the layout.
LayoutPlain ==
    [Alt |-> ("e" :> MChar(Euro) @@ "5" :> MDeadKey("grave", Grave)),
     ShiftAlt |-> NoTable,
     DeadKeys |-> NoTable]

\* A layout file with a mistyped passthrough target: "5x" names no key.
LayoutTypo ==
    [Alt |-> ("5" :> MPassthrough("5x")),
     ShiftAlt |-> ("5" :> MPassthrough("5x")),
     DeadKeys |-> NoTable]

\* U+00E8 e with grave, U+007E TILDE
EGrave == <<232>>
Tilde == <<126>>

\* A layout with two dead keys, acute on Alt-e and grave on Alt-x, and a third
\* dead-key mapping, on Alt-5, whose id names no definition of the layout.
LayoutAccents ==
    [Alt |-> ("e" :> MDeadKey("acute", Acute) @@ "x" :> MDeadKey("grave", Grave)
              @@ "5" :> MDeadKey("tilde", Tilde)),
     ShiftAlt |-> NoTable,
     DeadKeys |-> ("acute" :> [Base |-> Acute, Combinations |-> ("e" :> EAcute)]
                   @@ "grave" :> [Base |-> Grave, Combinations |-> ("e" :> EGrave)])]

LayoutNames == {"azerty", "plain"}

LoadLayout(name) ==
    IF name = "azerty" THEN LayoutAzerty
    ELSE IF name = "typo" THEN LayoutTypo
    ELSE IF name = "accents" THEN LayoutAccents
    ELSE LayoutPlain

LookupAlt(layout, key) ==
    IF key \in DOMAIN layout.Alt THEN layout.Alt[key] ELSE Nil

LookupShiftAlt_AltTable(layout, key) ==
    IF key \in DOMAIN layout.Alt THEN layout.Alt[key] ELSE Nil

LookupShiftAlt(layout, key) ==
    IF key \in DOMAIN layout.ShiftAlt THEN layout.ShiftAlt[key] ELSE Nil

\* activeDeadKey holds the id of the armed definition, or NoDeadKey.
NoDeadKey == "none"

SetDeadKey(layout, adk, id) == IF id \in DOMAIN layout.DeadKeys THEN id ELSE adk

HasActiveDeadKey(adk) == adk # NoDeadKey

ApplyDeadKey_KeepArmedOnMiss(layout, adk, char) ==
    IF adk = NoDeadKey
    THEN [result |-> NameRunes(char), applied |-> FALSE, adk |-> adk]
    ELSE LET dk == layout.DeadKeys[adk] IN
         IF char \in DOMAIN dk.Combinations
         THEN [result |-> dk.Combinations[char], applied |-> TRUE, adk |-> NoDeadKey]
         ELSE [result |-> dk.Base \o NameRunes(char), applied |-> TRUE, adk |-> adk]

ApplyDeadKey(layout, adk, char) ==
    IF adk = NoDeadKey
    THEN [result |-> NameRunes(char), applied |-> FALSE, adk |-> adk]
    ELSE LET dk == layout.DeadKeys[adk] IN
         IF char \in DOMAIN dk.Combinations
         THEN [result |-> dk.Combinations[char], applied |-> TRUE, adk |-> NoDeadKey]
         ELSE [result |-> dk.Base \o NameRunes(char), applied |-> TRUE, adk |-> NoDeadKey]

GetOutput(m) ==
    IF m.Codepoint # 0 THEN [r |-> m.Codepoint, ok |-> TRUE]
    ELSE IF m.Char # <<>> THEN [r |-> m.Char[1], ok |-> TRUE]
    ELSE [r |-> 0, ok |-> FALSE]

(***************************************************************************)
(* Virtual keyboard: every operation yields the sequence of writes it      *)
(* makes on the synthetic device.                                          *)
(***************************************************************************)
KeyDown(code) == <<[code |-> code, dir |-> "down"]>>
KeyUp(code) == <<[code |-> code, dir |-> "up"]>>
KeyPress(code) == KeyDown(code) \o KeyUp(code)

\* fmt.Sprintf("%x", r): the hexadecimal digits of r, most significant first.
RECURSIVE HexDigits(_)
HexDigits(r) == IF r < 16 THEN <<r>> ELSE Append(HexDigits(r \div 16), r % 16)

typeWithShift(keyCode) ==
    KeyDown(KEY_LEFTSHIFT) \o KeyPress(keyCode) \o KeyUp(KEY_LEFTSHIFT)

typeHexChar(c) ==
    CASE c = 0 -> typeWithShift(KEY_0)
      [] c = 1 -> typeWithShift(KEY_1)
      [] c = 2 -> typeWithShift(KEY_2)
      [] c = 3 -> typeWithShift(KEY_3)
      [] c = 4 -> typeWithShift(KEY_4)
      [] c = 5 -> typeWithShift(KEY_5)
      [] c = 6 -> typeWithShift(KEY_6)
      [] c = 7 -> typeWithShift(KEY_7)
      [] c = 8 -> typeWithShift(KEY_8)
      [] c = 9 -> typeWithShift(KEY_9)
      [] c = 10 -> KeyPress(KEY_Q)
      [] c = 11 -> KeyPress(KEY_B)
      [] c = 12 -> KeyPress(KEY_C)
      [] c = 13 -> KeyPress(KEY_D)
      [] c = 14 -> KeyPress(KEY_E)
      [] c = 15 -> KeyPress(KEY_F)

RECURSIVE TypeHex(_)
TypeHex(hex) == IF hex = <<>> THEN <<>> ELSE typeHexChar(Head(hex)) \o TypeHex(Tail(hex))

TypeUnicode_CtrlHeld(r) ==
    KeyDown(KEY_LEFTCTRL) \o KeyDown(KEY_LEFTSHIFT) \o KeyPress(KEY_U)
        \o KeyUp(KEY_LEFTSHIFT)
        \o TypeHex(HexDigits(r))
        \o KeyPress(KEY_SPACE) \o KeyUp(KEY_LEFTCTRL)

TypeUnicode(r) ==
    KeyDown(KEY_LEFTCTRL) \o KeyDown(KEY_LEFTSHIFT) \o KeyPress(KEY_U)
        \o KeyUp(KEY_LEFTSHIFT) \o KeyUp(KEY_LEFTCTRL)
        \o TypeHex(HexDigits(r))
        \o KeyPress(KEY_SPACE)

RECURSIVE TypeString(_)
TypeString(s) == IF s = <<>> THEN <<>> ELSE TypeUnicode(Head(s)) \o TypeString(Tail(s))

PassthroughWithRAlt_TapFirst(keyCode) ==
    KeyPress(keyCode) \o KeyDown(KEY_RIGHTALT) \o KeyUp(KEY_RIGHTALT)

PassthroughWithRAlt(keyCode) ==
    KeyDown(KEY_RIGHTALT) \o KeyPress(keyCode) \o KeyUp(KEY_RIGHTALT)

PassthroughWithShiftRAlt_AlwaysShift(keyCode, shiftAlreadyDown) ==
    KeyDown(KEY_LEFTSHIFT) \o KeyDown(KEY_RIGHTALT) \o KeyPress(keyCode)
        \o KeyUp(KEY_RIGHTALT) \o KeyUp(KEY_LEFTSHIFT)

PassthroughWithShiftRAlt(keyCode, shiftAlreadyDown) ==
    (IF shiftAlreadyDown THEN <<>> ELSE KeyDown(KEY_LEFTSHIFT))
        \o KeyDown(KEY_RIGHTALT) \o KeyPress(keyCode) \o KeyUp(KEY_RIGHTALT)
        \o (IF shiftAlreadyDown THEN <<>> ELSE KeyUp(KEY_LEFTSHIFT))

ForwardEvent_PressAsTap(code, value) ==
    CASE value = 0 -> KeyUp(code)
      [] value = 1 -> KeyPress(code)
      [] value = 2 -> KeyDown(code)
      [] OTHER -> <<>>

ForwardEvent(code, value) ==
    CASE value = 0 -> KeyUp(code)
      [] value = 1 -> KeyDown(code)
      [] value = 2 -> KeyDown(code)
      [] OTHER -> <<>>

(***************************************************************************)
(* The virtual keyboard with write failures.  Every operation takes n, the *)
(* number of the write from here on that fails (0: none fails), and yields *)
(* the writes it attempts in order (st: "ok", "failed", or "ignored" for a *)
(* release whose result the code discards), whether it returns an error,   *)
(* and the n left for what follows.                                        *)
(***************************************************************************)
Write(code, dir, n) ==
    IF n = 1
    THEN [n |-> 0, w |-> <<[code |-> code, dir |-> dir, st |-> "failed"]>>, err |-> TRUE]
    ELSE [n |-> IF n = 0 THEN 0 ELSE n - 1,
          w |-> <<[code |-> code, dir |-> dir, st |-> "ok"]>>, err |-> FALSE]

\* a, then b which was started with a.n.
Then(a, b) == [n |-> b.n, w |-> a.w \o b.w, err |-> b.err]

\* "vk.device.KeyUp(code)" as a statement: attempted, its result discarded.
Ignored(code) == <<[code |-> code, dir |-> "up", st |-> "ignored"]>>

\* The error of a is returned after the releases in cleanup were attempted.
Fail(a, cleanup) == [n |-> 0, w |-> a.w \o cleanup, err |-> TRUE]

Done(n) == [n |-> n, w |-> <<>>, err |-> FALSE]

RunKeyDown(code, n) == Write(code, "down", n)
RunKeyUp(code, n) == Write(code, "up", n)

\* uinput KeyPress: the press is written, then the release.
RunKeyPress(code, n) ==
    LET a == RunKeyDown(code, n) IN
    IF a.err THEN a ELSE Then(a, RunKeyUp(code, a.n))

RuntypeWithShift_NoCleanup(keyCode, n) ==
    LET a == RunKeyDown(KEY_LEFTSHIFT, n) IN
    IF a.err THEN a ELSE
    LET b == Then(a, RunKeyPress(keyCode, a.n)) IN
    IF b.err THEN b ELSE
    Then(b, RunKeyUp(KEY_LEFTSHIFT, b.n))

RuntypeWithShift(keyCode, n) ==
    LET a == RunKeyDown(KEY_LEFTSHIFT, n) IN
    IF a.err THEN a ELSE
    LET b == Then(a, RunKeyPress(keyCode, a.n)) IN
    IF b.err THEN Fail(b, Ignored(KEY_LEFTSHIFT)) ELSE
    Then(b, RunKeyUp(KEY_LEFTSHIFT, b.n))

RuntypeHexChar(c, n) ==
    CASE c = 0 -> RuntypeWithShift(KEY_0, n)
      [] c = 1 -> RuntypeWithShift(KEY_1, n)
      [] c = 2 -> RuntypeWithShift(KEY_2, n)
      [] c = 3 -> RuntypeWithShift(KEY_3, n)
      [] c = 4 -> RuntypeWithShift(KEY_4, n)
      [] c = 5 -> RuntypeWithShift(KEY_5, n)
      [] c = 6 -> RuntypeWithShift(KEY_6, n)
      [] c = 7 -> RuntypeWithShift(KEY_7, n)
      [] c = 8 -> RuntypeWithShift(KEY_8, n)
      [] c = 9 -> RuntypeWithShift(KEY_9, n)
      [] c = 10 -> RunKeyPress(KEY_Q, n)
      [] c = 11 -> RunKeyPress(KEY_B, n)
      [] c = 12 -> RunKeyPress(KEY_C, n)
      [] c = 13 -> RunKeyPress(KEY_D, n)
      [] c = 14 -> RunKeyPress(KEY_E, n)
      [] c = 15 -> RunKeyPress(KEY_F, n)

\* The loop over the hexadecimal digits: the first error ends it.
RECURSIVE RunTypeHex(_, _)
RunTypeHex(hex, n) ==
    IF hex = <<>> THEN Done(n)
    ELSE LET a == RuntypeHexChar(Head(hex), n) IN
         IF a.err THEN a ELSE Then(a, RunTypeHex(Tail(hex), a.n))

RunTypeUnicode(r, n) ==
    LET a == RunKeyDown(KEY_LEFTCTRL, n) IN
    IF a.err THEN a ELSE
    LET b == Then(a, RunKeyDown(KEY_LEFTSHIFT, a.n)) IN
    IF b.err THEN Fail(b, Ignored(KEY_LEFTCTRL)) ELSE
    LET c == Then(b, RunKeyPress(KEY_U, b.n)) IN
    IF c.err THEN Fail(c, Ignored(KEY_LEFTSHIFT) \o Ignored(KEY_LEFTCTRL)) ELSE
    LET d == Then(c, RunKeyUp(KEY_LEFTSHIFT, c.n)) IN
    IF d.err THEN Fail(d, Ignored(KEY_LEFTCTRL)) ELSE
    LET e == Then(d, RunKeyUp(KEY_LEFTCTRL, d.n)) IN
    IF e.err THEN e ELSE
    LET f == Then(e, RunTypeHex(HexDigits(r), e.n)) IN
    IF f.err THEN f ELSE
    Then(f, RunKeyPress(KEY_SPACE, f.n))

RECURSIVE RunTypeString_KeepGoing(_, _)
RunTypeString_KeepGoing(s, n) ==
    IF s = <<>> THEN Done(n)
    ELSE LET a == RunTypeUnicode(Head(s), n)
             b == RunTypeString_KeepGoing(Tail(s), a.n)
         IN  [n |-> b.n, w |-> a.w \o b.w, err |-> a.err \/ b.err]

\* The loop over the scalars of s: the first error is returned.
RECURSIVE RunTypeString(_, _)
RunTypeString(s, n) ==
    IF s = <<>> THEN Done(n)
    ELSE LET a == RunTypeUnicode(Head(s), n) IN
         IF a.err THEN a ELSE Then(a, RunTypeString(Tail(s), a.n))

RunPassthroughWithRAlt(keyCode, n) ==
    LET a == RunKeyDown(KEY_RIGHTALT, n) IN
    IF a.err THEN a ELSE
    LET b == Then(a, RunKeyPress(keyCode, a.n)) IN
    IF b.err THEN Fail(b, Ignored(KEY_RIGHTALT)) ELSE
    Then(b, RunKeyUp(KEY_RIGHTALT, b.n))

RunPassthroughWithShiftRAlt(keyCode, shiftAlreadyDown, n) ==
    LET releaseShift == IF shiftAlreadyDown THEN <<>> ELSE Ignored(KEY_LEFTSHIFT)
        a == IF shiftAlreadyDown THEN Done(n) ELSE RunKeyDown(KEY_LEFTSHIFT, n)
    IN
    IF a.err THEN a ELSE
    LET b == Then(a, RunKeyDown(KEY_RIGHTALT, a.n)) IN
    IF b.err THEN Fail(b, releaseShift) ELSE
    LET c == Then(b, RunKeyPress(keyCode, b.n)) IN
    IF c.err THEN Fail(c, Ignored(KEY_RIGHTALT) \o releaseShift) ELSE
    LET d == Then(c, RunKeyUp(KEY_RIGHTALT, c.n)) IN
    IF d.err THEN Fail(d, releaseShift) ELSE
    IF shiftAlreadyDown THEN d ELSE Then(d, RunKeyUp(KEY_LEFTSHIFT, d.n))

RunForwardEvent_OtherAsDown(code, value, n) ==
    CASE value = 0 -> RunKeyUp(code, n)
      [] OTHER -> RunKeyDown(code, n)

RunForwardEvent(code, value, n) ==
    CASE value = 0 -> RunKeyUp(code, n)
      [] value = 1 -> RunKeyDown(code, n)
      [] value = 2 -> RunKeyDown(code, n)
      [] OTHER -> Done(n)

\* The writes of a run without their outcome.
Plain(w) == [i \in 1..Len(w) |-> [code |-> w[i].code, dir |-> w[i].dir]]

(***************************************************************************)
(* State.                                                                  *)
(*   Handler: enabled, lookup (the name of the layout the current          *)
(*   KeyLookup was built from), activeDeadKey (the composer of that        *)
(*   KeyLookup), keyState, interceptedKeys.                                *)
(*   Synthetic device: vdown, the modifier codes that are down on it.      *)
(*   Observation: last (the operation that ran last), written (the writes  *)
(*   it made), remapped (the non-modifier keys of which a press was        *)
(*   consumed and remapped and that have not been released since).         *)
(***************************************************************************)
VARIABLES enabled, lookup, activeDeadKey, keyState, interceptedKeys,
          vdown, last, written, remapped, inflight

engineVars == <<enabled, lookup, activeDeadKey, keyState, interceptedKeys,
                vdown, last, written, remapped, inflight>>

\* The key codes and values the devices deliver.
InputCodes == {KEY_LEFTALT, KEY_LEFTSHIFT, KEY_RIGHTALT, KEY_5, KEY_E, KEY_X, KEY_CAPSLOCK}
InputValues == {0, 1, 2}

\* inflight: the event handleEvent is working on once it has taken its
\* snapshot under the read lock, with the snapshot: the enable flag, the
\* KeyLookup (the layout it was built from and its composer) and whether that
\* KeyLookup is still the installed one.
NoSnapshot ==
    [busy |-> FALSE, ev |-> [Code |-> 0, Value |-> 0], enabled |-> FALSE,
     lookup |-> "", adk |-> "", installed |-> FALSE]

(***************************************************************************)
(* Handler.                                                                *)
(***************************************************************************)
executeMapping_UnknownAsRAlt(m, ks, layout, adk) ==
    IF m.Passthrough # ""
    THEN IF m.Passthrough \notin KnownNames
         THEN [written |-> KeyPress(KEY_RIGHTALT), activeDeadKey |-> adk]
         ELSE LET passthroughCode == NameToKeyCode(m.Passthrough)
                  shiftPressed == ShiftPressed(ks)
              IN  [written |-> IF shiftPressed
                               THEN PassthroughWithShiftRAlt(passthroughCode, TRUE)
                               ELSE PassthroughWithRAlt(passthroughCode),
                   activeDeadKey |-> adk]
    ELSE LET out == GetOutput(m) IN
         IF m.IsDeadKey
         THEN [written |-> IF out.ok THEN TypeUnicode(out.r) ELSE <<>>,
               activeDeadKey |-> SetDeadKey(layout, adk, m.DeadKeyID)]
         ELSE [written |-> IF out.ok THEN TypeUnicode(out.r) ELSE <<>>,
               activeDeadKey |-> adk]

executeMapping(m, ks, layout, adk) ==
    IF m.Passthrough # ""
    THEN IF m.Passthrough \notin KnownNames
         THEN [written |-> <<>>, activeDeadKey |-> adk]
         ELSE LET passthroughCode == NameToKeyCode(m.Passthrough)
                  shiftPressed == ShiftPressed(ks)
              IN  [written |-> IF shiftPressed
                               THEN PassthroughWithShiftRAlt(passthroughCode, TRUE)
                               ELSE PassthroughWithRAlt(passthroughCode),
                   activeDeadKey |-> adk]
    ELSE LET out == GetOutput(m) IN
         IF m.IsDeadKey
         THEN [written |-> IF out.ok THEN TypeUnicode(out.r) ELSE <<>>,
               activeDeadKey |-> SetDeadKey(layout, adk, m.DeadKeyID)]
         ELSE [written |-> IF out.ok THEN TypeUnicode(out.r) ELSE <<>>,
               activeDeadKey |-> adk]

handleDeadKeyCombo_NoIntercept(ev, layout, adk, ik) ==
    IF ev.Code \notin DOMAIN KeyCodeToName
    THEN [written |-> ForwardEvent(ev.Code, ev.Value), interceptedKeys |-> ik,
          activeDeadKey |-> NoDeadKey, route |-> "deadkey-unnamed"]
    ELSE LET r == ApplyDeadKey(layout, adk, KeyCodeToName[ev.Code]) IN
         [written |-> TypeString(r.result), interceptedKeys |-> ik,
          activeDeadKey |-> r.adk, route |-> "deadkey"]

handleDeadKeyCombo_UnnamedKeepsArmed(ev, layout, adk, ik) ==
    IF ev.Code \notin DOMAIN KeyCodeToName
    THEN [written |-> ForwardEvent(ev.Code, ev.Value), interceptedKeys |-> ik,
          activeDeadKey |-> adk, route |-> "deadkey-unnamed"]
    ELSE LET r == ApplyDeadKey(layout, adk, KeyCodeToName[ev.Code]) IN
         IF r.applied
         THEN [written |-> TypeString(r.result), interceptedKeys |-> ik \cup {ev.Code},
               activeDeadKey |-> r.adk, route |-> "deadkey"]
         ELSE [written |-> ForwardEvent(ev.Code, ev.Value), interceptedKeys |-> ik,
               activeDeadKey |-> r.adk, route |-> "forward"]

handleDeadKeyCombo(ev, layout, adk, ik) ==
    IF ev.Code \notin DOMAIN KeyCodeToName
    THEN [written |-> ForwardEvent(ev.Code, ev.Value), interceptedKeys |-> ik,
          activeDeadKey |-> NoDeadKey, route |-> "deadkey-unnamed"]
    ELSE LET r == ApplyDeadKey(layout, adk, KeyCodeToName[ev.Code]) IN
         IF r.applied
         THEN [written |-> TypeString(r.result), interceptedKeys |-> ik \cup {ev.Code},
               activeDeadKey |-> r.adk, route |-> "deadkey"]
         ELSE [written |-> ForwardEvent(ev.Code, ev.Value), interceptedKeys |-> ik,
               activeDeadKey |-> r.adk, route |-> "forward"]

\* The release branch: wasIntercepted is read and the code is deleted.
ReleaseKey_NoDelete(ik, code) ==
    [wasIntercepted |-> code \in ik, interceptedKeys |-> ik]

ReleaseKey(ik, code) ==
    [wasIntercepted |-> code \in ik, interceptedKeys |-> ik \ {code}]

\* handleEvent from the snapshot of enabled and lookup on: a key that is
\* neither the trigger nor another modifier.
handleKey(ks, en, layout, adk, ik, ev) ==
    LET fwd(route) == [written |-> ForwardEvent(ev.Code, ev.Value), interceptedKeys |-> ik,
                       activeDeadKey |-> adk, route |-> route]
    IN
    IF ~en THEN fwd("disabled")
    ELSE IF IsRelease(ev)
    THEN LET rel == ReleaseKey(ik, ev.Code) IN
         IF rel.wasIntercepted
         THEN [written |-> <<>>, interceptedKeys |-> rel.interceptedKeys,
               activeDeadKey |-> adk, route |-> "release-swallowed"]
         ELSE [written |-> ForwardEvent(ev.Code, ev.Value),
               interceptedKeys |-> rel.interceptedKeys,
               activeDeadKey |-> adk, route |-> "release-forwarded"]
    ELSE IF ~IsPress(ev) THEN fwd("repeat")
    ELSE IF ~LeftAltPressed(ks)
    THEN IF HasActiveDeadKey(adk)
         THEN handleDeadKeyCombo(ev, layout, adk, ik)
         ELSE fwd("forward")
    ELSE IF ev.Code \notin DOMAIN KeyCodeToName THEN fwd("forward")
    ELSE LET keyName == KeyCodeToName[ev.Code]
             mapping == IF ShiftPressed(ks)
                        THEN LookupShiftAlt(layout, keyName)
                        ELSE LookupAlt(layout, keyName)
         IN  IF mapping = Nil THEN fwd("forward")
             ELSE LET x == executeMapping(mapping, ks, layout, adk) IN
                  [written |-> x.written, interceptedKeys |-> ik \cup {ev.Code},
                   activeDeadKey |-> x.activeDeadKey,
                   route |-> IF mapping.Passthrough # "" THEN "passthrough"
                             ELSE IF mapping.IsDeadKey THEN "arm" ELSE "unicode"]

handleEvent_ForwardTrigger(ks, en, layout, adk, ik, ev) ==
    IF IsModifier(ev.Code)
    THEN [written |-> ForwardEvent(ev.Code, ev.Value), interceptedKeys |-> ik,
          activeDeadKey |-> adk, route |-> "modifier"]
    ELSE handleKey(ks, en, layout, adk, ik, ev)

handleEvent_MarksModifier(ks, en, layout, adk, ik, ev) ==
    IF ev.Code = KEY_LEFTALT
    THEN [written |-> <<>>, interceptedKeys |-> ik, activeDeadKey |-> adk,
          route |-> "trigger"]
    ELSE IF IsModifier(ev.Code)
    THEN [written |-> ForwardEvent(ev.Code, ev.Value),
          interceptedKeys |-> IF IsPress(ev) THEN ik \cup {ev.Code} ELSE ik,
          activeDeadKey |-> adk, route |-> "modifier"]
    ELSE handleKey(ks, en, layout, adk, ik, ev)

\* ks is the tracker after UpdateFromEvent.
handleEvent(ks, en, layout, adk, ik, ev) ==
    IF ev.Code = KEY_LEFTALT
    THEN [written |-> <<>>, interceptedKeys |-> ik, activeDeadKey |-> adk,
          route |-> "trigger"]
    ELSE IF IsModifier(ev.Code)
    THEN [written |-> ForwardEvent(ev.Code, ev.Value), interceptedKeys |-> ik,
          activeDeadKey |-> adk, route |-> "modifier"]
    ELSE handleKey(ks, en, layout, adk, ik, ev)

\* The snapshot handleEvent takes under the read lock.
SnapshotEnabled_AlwaysOn == TRUE

SnapshotEnabled == enabled

SnapshotLookup == LoadLayout(lookup)

\* The codes whose state on the synthetic device is followed: the modifiers.
Followed == TrackedCodes

\* The synthetic device after a sequence of writes.
ApplyWrites(vd, w) ==
    LET at(c) == {i \in 1..Len(w) : w[i].code = c}
        final(c) == w[CHOOSE i \in at(c) : \A j \in at(c) : j <= i].dir
    IN  {c \in Followed :
            IF at(c) = {} THEN c \in vd ELSE final(c) = "down"}

Remapping(route) == route \in {"passthrough", "arm", "unicode", "deadkey"}

\* One event through handleEvent.
Process(ev) ==
    LET ks == UpdateFromEvent(keyState, ev)
        res == handleEvent(ks, SnapshotEnabled, SnapshotLookup, activeDeadKey,
                           interceptedKeys, ev)
    IN  /\ keyState' = ks
        /\ interceptedKeys' = res.interceptedKeys
        /\ activeDeadKey' = res.activeDeadKey
        /\ written' = res.written
        /\ vdown' = ApplyWrites(vdown, res.written)
        /\ last' = [op |-> "event", Code |-> ev.Code, Value |-> ev.Value, route |-> res.route]
        /\ remapped' = IF IsModifier(ev.Code) THEN remapped
                       ELSE IF IsPress(ev) /\ Remapping(res.route)
                       THEN remapped \cup {ev.Code}
                       ELSE IF IsRelease(ev) THEN remapped \ {ev.Code}
                       ELSE remapped
        /\ UNCHANGED <<enabled, lookup, inflight>>

\* handleEvent up to the snapshot: the tracker is updated, a trigger or
\* modifier event is handled to the end (it reads neither the enable flag nor
\* the lookup), any other event takes its snapshot under the read lock.
BeginEvent(ev) ==
    /\ ~inflight.busy
    /\ IF IsModifier(ev.Code)
       THEN Process(ev)
       ELSE /\ keyState' = UpdateFromEvent(keyState, ev)
            /\ inflight' = [busy |-> TRUE, ev |-> ev, enabled |-> enabled,
                            lookup |-> lookup, adk |-> activeDeadKey, installed |-> TRUE]
            /\ last' = [op |-> "snapshot", Code |-> ev.Code, Value |-> ev.Value, route |-> ""]
            /\ written' = <<>>
            /\ UNCHANGED <<enabled, lookup, activeDeadKey, interceptedKeys, vdown, remapped>>

\* The KeyLookup whose composer handleEvent consults, arms and clears: the
\* one of the snapshot, which a SetLayout in between has replaced or not.
SnapshotComposer_Installed == [adk |-> activeDeadKey, installed |-> TRUE]

SnapshotComposer == [adk |-> inflight.adk, installed |-> inflight.installed]

\* handleEvent from the snapshot on, decided on the snapshot alone.
FinishEvent ==
    /\ inflight.busy
    /\ LET ev == inflight.ev
           res == handleKey(keyState, inflight.enabled, LoadLayout(inflight.lookup),
                            SnapshotComposer.adk, interceptedKeys, ev)
       IN  /\ interceptedKeys' = res.interceptedKeys
           /\ activeDeadKey' = IF SnapshotComposer.installed THEN res.activeDeadKey
                                ELSE activeDeadKey
           /\ written' = res.written
           /\ vdown' = ApplyWrites(vdown, res.written)
           /\ last' = [op |-> "event", Code |-> ev.Code, Value |-> ev.Value, route |-> res.route]
           /\ remapped' = IF IsPress(ev) /\ Remapping(res.route) THEN remapped \cup {ev.Code}
                          ELSE IF IsRelease(ev) THEN remapped \ {ev.Code}
                          ELSE remapped
           /\ inflight' = NoSnapshot
           /\ UNCHANGED <<enabled, lookup, keyState>>

SetEnabled(b) ==
    /\ enabled' = b
    /\ last' = [op |-> "SetEnabled", Code |-> 0, Value |-> 0, route |-> ""]
    /\ written' = <<>>
    /\ UNCHANGED <<lookup, activeDeadKey, keyState, interceptedKeys, vdown, remapped, inflight>>

SetLayout_ForgetsIntercepted(name) ==
    /\ lookup' = name
    /\ activeDeadKey' = NoDeadKey
    /\ last' = [op |-> "SetLayout", Code |-> 0, Value |-> 0, route |-> ""]
    /\ written' = <<>>
    /\ inflight' = [inflight EXCEPT !.installed = FALSE]
    /\ interceptedKeys' = {}
    /\ UNCHANGED <<enabled, keyState, vdown, remapped>>

\* main hands SetLayout a KeyLookup it has just built: no dead key is armed in it.
SetLayout(name) ==
    /\ lookup' = name
    /\ activeDeadKey' = NoDeadKey
    /\ last' = [op |-> "SetLayout", Code |-> 0, Value |-> 0, route |-> ""]
    /\ written' = <<>>
    /\ inflight' = [inflight EXCEPT !.installed = FALSE]
    /\ UNCHANGED <<enabled, keyState, interceptedKeys, vdown, remapped>>

EngineInit ==
    /\ enabled = TRUE
    /\ lookup \in LayoutNames
    /\ activeDeadKey = NoDeadKey
    /\ keyState = NewKeyState
    /\ interceptedKeys = {}
    /\ vdown = {}
    /\ last = [op |-> "New", Code |-> 0, Value |-> 0, route |-> ""]
    /\ written = <<>>
    /\ remapped = {}
    /\ inflight = NoSnapshot

(***************************************************************************)
(* main: from NewVirtualKeyboard to the end of the process.                *)
(*   pc         where main is                                              *)
(*   exit       "running", or the way the process ended                    *)
(*   noTray     the -no-tray flag                                          *)
(*   vkb        the synthetic device: "none", "open", "closed"             *)
(*   vkbCloses, dmCloses   calls of VirtualKeyboard.Close and of           *)
(*              DeviceManager.Close so far                                 *)
(*   scanned    FindKeyboards has opened the input devices                 *)
(*   keyboards  the devices FindKeyboards returned                         *)
(*   devices    dm.devices, the devices the manager holds open             *)
(*   grabbed    the devices whose exclusive grab succeeded                 *)
(*   rpc, rbuf  each reader task: its position and the event it carries    *)
(*   events     the shared queue                                           *)
(*   ctxDone    the cancellation signal                                    *)
(*   cpc        the consumer task (ProcessEvents)                          *)
(*   tray, trayEnabled   the tray and the state its toggle shows           *)
(*   reads, handled   per device, the key events its reader has read and   *)
(*              the consumer has handled so far                            *)
(*   errlog     the errors the reader and consumer tasks have logged       *)
(*   fdCloses   per device, the times DeviceManager.Close has closed it    *)
(*   call, result   the virtual keyboard operation called last, with its   *)
(*              arguments and the write that was made to fail, and what    *)
(*              it attempted and returned                                  *)
(*   phys, held   the keys held on the input devices, and the keys held on *)
(*              the synthetic device                                       *)
(*   trayLayout, savedLayout   the layout the tray marks as current, and   *)
(*              the layout in the configuration file (followed where the   *)
(*              layout menu is in use)                                     *)
(***************************************************************************)
VARIABLES pc, exit, noTray, vkb, vkbCloses, dmCloses, scanned, keyboards,
          devices, grabbed, rpc, rbuf, events, ctxDone, cpc, tray, trayEnabled,
          reads, handled, errlog, fdCloses, call, result, phys, held,
          trayLayout, savedLayout

obsVars == <<reads, handled, errlog>>

keyVars == <<phys, held>>

menuVars == <<trayLayout, savedLayout>>

\* The variables main and the handler leave as they are.
apiVars == <<call, result, keyVars, menuVars>>

mainVars == <<pc, exit, noTray, vkb, vkbCloses, dmCloses, scanned, keyboards,
              devices, grabbed, rpc, rbuf, events, ctxDone, cpc, tray, trayEnabled,
              obsVars, fdCloses, apiVars>>

vars == <<engineVars, mainVars>>

\* The input devices of the machine, and what a reader can read from one.
Devices == {"event0", "event1"}
DeviceCodes == {KEY_X}
DeviceValues == {1, 0}

\* Capacity of the shared queue (100 in main).
QueueCap == 1

\* Key events a reader reads from its device at most.
MaxReads == 2

\* Seq numbers the key events of one device in the order the device
\* delivers them.
NoEvent == [Code |-> 0, Value |-> 0, Device |-> "", Seq |-> 0]

\* ctx.Err() once the context is cancelled, and the error of a failed read.
Canceled == "context canceled"
ReadError == "reading event"

NoCall == [n |-> 0, op |-> "none", arg |-> 0, shift |-> FALSE]

MainInit ==
    /\ pc = "NewVirtualKeyboard"
    /\ exit = "running"
    /\ noTray \in BOOLEAN
    /\ vkb = "none"
    /\ vkbCloses = 0
    /\ dmCloses = 0
    /\ scanned = FALSE
    /\ keyboards = {}
    /\ devices = {}
    /\ grabbed = {}
    /\ rpc = [d \in Devices |-> "none"]
    /\ rbuf = [d \in Devices |-> NoEvent]
    /\ events = <<>>
    /\ ctxDone = FALSE
    /\ cpc = "none"
    /\ tray = "none"
    /\ trayEnabled = TRUE
    /\ reads = [d \in Devices |-> 0]
    /\ handled = [d \in Devices |-> 0]
    /\ errlog = {}
    /\ fdCloses = [d \in Devices |-> 0]
    /\ call = NoCall
    /\ result = Done(0)
    /\ phys = {}
    /\ held = {}

\* os.Exit: the process ends at once and no deferred call runs.
osExit(code) ==
    /\ exit' = code
    /\ pc' = "exited"

NewVirtualKeyboard ==
    /\ pc = "NewVirtualKeyboard" /\ exit = "running"
    /\ \/ /\ vkb' = "open"
          /\ pc' = "FindKeyboards"
          /\ UNCHANGED exit
       \/ /\ osExit("exit1")
          /\ UNCHANGED vkb
    /\ UNCHANGED <<noTray, vkbCloses, dmCloses, scanned, keyboards, devices, grabbed,
                   rpc, rbuf, events, ctxDone, cpc, tray, trayEnabled>>
    /\ UNCHANGED engineVars
    /\ UNCHANGED <<apiVars, fdCloses>>
    /\ UNCHANGED obsVars

\* FindKeyboards keeps the devices it classifies as keyboards; with none, main
\* logs "no keyboards found" and calls os.Exit(1).
FindKeyboards ==
    /\ pc = "FindKeyboards" /\ exit = "running"
    /\ \E kbs \in SUBSET Devices :
          /\ keyboards' = kbs
          /\ devices' = kbs
          /\ scanned' = TRUE
          /\ IF kbs = {}
             THEN osExit("exit1")
             ELSE pc' = "GrabDevice" /\ UNCHANGED exit
    /\ UNCHANGED <<noTray, vkb, vkbCloses, dmCloses, grabbed,
                   rpc, rbuf, events, ctxDone, cpc, tray, trayEnabled>>
    /\ UNCHANGED engineVars
    /\ UNCHANGED <<apiVars, fdCloses>>
    /\ UNCHANGED obsVars

\* The grab loop: a failed grab is logged and the loop goes on.
GrabDevices ==
    /\ pc = "GrabDevice" /\ exit = "running"
    /\ \E ok \in SUBSET keyboards : grabbed' = ok
    /\ pc' = "start"
    /\ UNCHANGED <<exit, noTray, vkb, vkbCloses, dmCloses, scanned, keyboards, devices,
                   rpc, rbuf, events, ctxDone, cpc, tray, trayEnabled>>
    /\ UNCHANGED engineVars
    /\ UNCHANGED <<apiVars, fdCloses>>
    /\ UNCHANGED obsVars

\* The devices main starts a reader task for: every keyboard FindKeyboards
\* returned, grabbed or not.
ReaderDevices == keyboards

\* The queue and the context are created, the readers and the consumer are
\* started, and main waits for a signal or runs the tray.
StartTasks ==
    /\ pc = "start" /\ exit = "running"
    /\ rpc' = [d \in Devices |-> IF d \in ReaderDevices THEN "select" ELSE "none"]
    /\ cpc' = "select"
    /\ tray' = IF noTray THEN "none" ELSE "running"
    /\ pc' = "run"
    /\ UNCHANGED <<exit, noTray, vkb, vkbCloses, dmCloses, scanned, keyboards, devices,
                   grabbed, rbuf, events, ctxDone, trayEnabled>>
    /\ UNCHANGED engineVars
    /\ UNCHANGED <<apiVars, fdCloses>>
    /\ UNCHANGED obsVars

\* The tasks run from StartTasks to the end of the process.
Alive == exit = "running" /\ pc \in {"run", "cancel", "devManager.Close", "vkb.Close"}

\* ReadEvents, the select: return on cancellation, else read.
ReaderSelect(d) ==
    /\ Alive /\ rpc[d] = "select"
    /\ rpc' = [rpc EXCEPT ![d] = IF ctxDone THEN "returned" ELSE "read"]
    /\ errlog' = IF ctxDone THEN errlog \cup {[task |-> d, err |-> Canceled]} ELSE errlog
    /\ UNCHANGED <<reads, handled>>
    /\ UNCHANGED <<pc, exit, noTray, vkb, vkbCloses, dmCloses, scanned, keyboards, devices,
                   grabbed, rbuf, events, ctxDone, cpc, tray, trayEnabled>>
    /\ UNCHANGED engineVars
    /\ UNCHANGED <<apiVars, fdCloses>>

ReaderRead_FailureCancels(d) ==
    /\ Alive /\ rpc[d] = "read"
    /\ \/ /\ d \in devices
          /\ reads[d] < MaxReads
          /\ \E c \in DeviceCodes, v \in DeviceValues :
                /\ rbuf' = [rbuf EXCEPT ![d] = [Code |-> c, Value |-> v, Device |-> d,
                                                Seq |-> reads[d] + 1]]
                /\ rpc' = [rpc EXCEPT ![d] = "send"]
          /\ reads' = [reads EXCEPT ![d] = reads[d] + 1]
          /\ UNCHANGED <<errlog, ctxDone>>
       \/ /\ d \in devices
          /\ rpc' = [rpc EXCEPT ![d] = "select"]
          /\ UNCHANGED <<rbuf, reads, errlog, ctxDone>>
       \/ /\ rpc' = [rpc EXCEPT ![d] = "failed"]
          /\ errlog' = errlog \cup {[task |-> d, err |-> ReadError]}
          /\ ctxDone' = TRUE
          /\ UNCHANGED <<rbuf, reads>>
    /\ UNCHANGED <<pc, exit, noTray, vkb, vkbCloses, dmCloses, scanned, keyboards, devices,
                   grabbed, events, cpc, tray, trayEnabled, handled>>
    /\ UNCHANGED engineVars
    /\ UNCHANGED <<apiVars, fdCloses>>

\* ReadEvents, ReadOne: a key event, another event, or an error that ends
\* the reader; a device that has been closed yields an error.
ReaderRead(d) ==
    /\ Alive /\ rpc[d] = "read"
    /\ \/ /\ d \in devices
          /\ reads[d] < MaxReads
          /\ \E c \in DeviceCodes, v \in DeviceValues :
                /\ rbuf' = [rbuf EXCEPT ![d] = [Code |-> c, Value |-> v, Device |-> d,
                                                Seq |-> reads[d] + 1]]
                /\ rpc' = [rpc EXCEPT ![d] = "send"]
          /\ reads' = [reads EXCEPT ![d] = reads[d] + 1]
          /\ UNCHANGED errlog
       \/ /\ d \in devices
          /\ rpc' = [rpc EXCEPT ![d] = "select"]
          /\ UNCHANGED <<rbuf, reads, errlog>>
       \/ /\ rpc' = [rpc EXCEPT ![d] = "failed"]
          /\ errlog' = errlog \cup {[task |-> d, err |-> ReadError]}
          /\ UNCHANGED <<rbuf, reads>>
    /\ UNCHANGED <<pc, exit, noTray, vkb, vkbCloses, dmCloses, scanned, keyboards, devices,
                   grabbed, events, ctxDone, cpc, tray, trayEnabled, handled>>
    /\ UNCHANGED engineVars
    /\ UNCHANGED <<apiVars, fdCloses>>

ReaderSend_DropWhenFull(d) ==
    /\ Alive /\ rpc[d] = "send"
    /\ events' = IF Len(events) < QueueCap THEN Append(events, rbuf[d]) ELSE events
    /\ rbuf' = [rbuf EXCEPT ![d] = NoEvent]
    /\ rpc' = [rpc EXCEPT ![d] = "select"]
    /\ UNCHANGED <<pc, exit, noTray, vkb, vkbCloses, dmCloses, scanned, keyboards, devices,
                   grabbed, ctxDone, cpc, tray, trayEnabled>>
    /\ UNCHANGED engineVars
    /\ UNCHANGED <<apiVars, fdCloses>>
    /\ UNCHANGED obsVars

\* ReadEvents, the send: blocks while the queue is full.
ReaderSend(d) ==
    /\ Alive /\ rpc[d] = "send"
    /\ Len(events) < QueueCap
    /\ events' = Append(events, rbuf[d])
    /\ rbuf' = [rbuf EXCEPT ![d] = NoEvent]
    /\ rpc' = [rpc EXCEPT ![d] = "select"]
    /\ UNCHANGED <<pc, exit, noTray, vkb, vkbCloses, dmCloses, scanned, keyboards, devices,
                   grabbed, ctxDone, cpc, tray, trayEnabled>>
    /\ UNCHANGED engineVars
    /\ UNCHANGED <<apiVars, fdCloses>>
    /\ UNCHANGED obsVars

\* ProcessEvents: one event of the queue through handleEvent.
ConsumerReceive ==
    /\ Alive /\ cpc = "select"
    /\ events # <<>>
    /\ Process(Head(events))
    /\ events' = Tail(events)
    /\ handled' = [handled EXCEPT ![Head(events).Device] = handled[Head(events).Device] + 1]
    /\ UNCHANGED <<reads, errlog>>
    /\ UNCHANGED <<pc, exit, noTray, vkb, vkbCloses, dmCloses, scanned, keyboards, devices,
                   grabbed, rpc, rbuf, ctxDone, cpc, tray, trayEnabled>>
    /\ UNCHANGED <<apiVars, fdCloses>>

\* ProcessEvents: the cancellation case of the select.
ConsumerCancelled ==
    /\ Alive /\ cpc = "select"
    /\ ctxDone
    /\ cpc' = "returned"
    /\ errlog' = errlog \cup {[task |-> "consumer", err |-> Canceled]}
    /\ UNCHANGED <<reads, handled>>
    /\ UNCHANGED <<pc, exit, noTray, vkb, vkbCloses, dmCloses, scanned, keyboards, devices,
                   grabbed, rpc, rbuf, events, ctxDone, tray, trayEnabled>>
    /\ UNCHANGED engineVars
    /\ UNCHANGED <<apiVars, fdCloses>>

\* The tray's toggle item: toggleEnabled, then OnToggle calls SetEnabled.
TrayToggle ==
    /\ exit = "running" /\ pc = "run" /\ tray = "running"
    /\ trayEnabled' = ~trayEnabled
    /\ SetEnabled(~trayEnabled)
    /\ UNCHANGED <<pc, exit, noTray, vkb, vkbCloses, dmCloses, scanned, keyboards, devices,
                   grabbed, rpc, rbuf, events, ctxDone, cpc, tray>>
    /\ UNCHANGED obsVars
    /\ UNCHANGED <<apiVars, fdCloses>>

\* The tray's Quit item: OnQuit cancels the context ...
TrayQuit ==
    /\ exit = "running" /\ pc = "run" /\ tray = "running"
    /\ ctxDone' = TRUE
    /\ tray' = "OnQuit"
    /\ UNCHANGED <<pc, exit, noTray, vkb, vkbCloses, dmCloses, scanned, keyboards, devices,
                   grabbed, rpc, rbuf, events, cpc, trayEnabled>>
    /\ UNCHANGED engineVars
    /\ UNCHANGED <<apiVars, fdCloses>>
    /\ UNCHANGED obsVars

\* ... and calls os.Exit(0).
TrayExit ==
    /\ exit = "running" /\ tray = "OnQuit"
    /\ osExit("exit0")
    /\ UNCHANGED <<noTray, vkb, vkbCloses, dmCloses, scanned, keyboards, devices,
                   grabbed, rpc, rbuf, events, ctxDone, cpc, tray, trayEnabled>>
    /\ UNCHANGED engineVars
    /\ UNCHANGED <<apiVars, fdCloses>>
    /\ UNCHANGED obsVars

\* SIGINT or SIGTERM: without tray main goes on past <-sigChan; with the tray
\* the signal task calls trayIcon.Quit and trayIcon.Run returns.
Signal ==
    /\ exit = "running" /\ pc = "run" /\ tray # "OnQuit"
    /\ pc' = "cancel"
    /\ tray' = IF tray = "running" THEN "quit" ELSE tray
    /\ UNCHANGED <<exit, noTray, vkb, vkbCloses, dmCloses, scanned, keyboards, devices,
                   grabbed, rpc, rbuf, events, ctxDone, cpc, trayEnabled>>
    /\ UNCHANGED engineVars
    /\ UNCHANGED <<apiVars, fdCloses>>
    /\ UNCHANGED obsVars

\* main returns: the deferred calls run, last registered first: cancel,
DeferCancel ==
    /\ exit = "running" /\ pc = "cancel"
    /\ ctxDone' = TRUE
    /\ pc' = "devManager.Close"
    /\ UNCHANGED <<exit, noTray, vkb, vkbCloses, dmCloses, scanned, keyboards, devices,
                   grabbed, rpc, rbuf, events, cpc, tray, trayEnabled>>
    /\ UNCHANGED engineVars
    /\ UNCHANGED <<apiVars, fdCloses>>
    /\ UNCHANGED obsVars

\* DeviceManager.Close: every managed device is closed and the map emptied.
Close_KeepMap ==
    /\ dmCloses' = dmCloses + 1
    /\ fdCloses' = [d \in Devices |-> IF d \in devices THEN fdCloses[d] + 1 ELSE fdCloses[d]]
    /\ devices' = devices

Close ==
    /\ dmCloses' = dmCloses + 1
    /\ fdCloses' = [d \in Devices |-> IF d \in devices THEN fdCloses[d] + 1 ELSE fdCloses[d]]
    /\ devices' = {}

\* devManager.Close,
DeferDevManagerClose ==
    /\ exit = "running" /\ pc = "devManager.Close"
    /\ Close
    /\ pc' = "vkb.Close"
    /\ UNCHANGED <<exit, noTray, vkb, vkbCloses, scanned, keyboards,
                   grabbed, rpc, rbuf, events, ctxDone, cpc, tray, trayEnabled>>
    /\ UNCHANGED engineVars
    /\ UNCHANGED apiVars
    /\ UNCHANGED obsVars

\* vkb.Close, and the process ends.
DeferVkbClose ==
    /\ exit = "running" /\ pc = "vkb.Close"
    /\ vkbCloses' = vkbCloses + 1
    /\ vkb' = "closed"
    /\ exit' = "exit0"
    /\ pc' = "exited"
    /\ UNCHANGED <<noTray, dmCloses, scanned, keyboards, devices,
                   grabbed, rpc, rbuf, events, ctxDone, cpc, tray, trayEnabled>>
    /\ UNCHANGED engineVars
    /\ UNCHANGED <<apiVars, fdCloses>>
    /\ UNCHANGED obsVars

(***************************************************************************)
(* Specifications.                                                         *)
(***************************************************************************)
KeyEvent ==
    /\ \E c \in InputCodes, v \in InputValues : Process([Code |-> c, Value |-> v])
    /\ UNCHANGED mainVars
Toggle ==
    /\ \E b \in BOOLEAN : SetEnabled(b)
    /\ UNCHANGED mainVars
LayoutChange ==
    /\ \E n \in LayoutNames : SetLayout(n)
    /\ UNCHANGED mainVars

\* No layout: the layout menu of the tray is not in use.
NoLayout == ""

Init == EngineInit /\ MainInit /\ trayLayout = NoLayout /\ savedLayout = NoLayout

\* The handler driven directly; main stays where it starts, without tray.
HandlerInit == Init /\ noTray
Next == KeyEvent \/ Toggle \/ LayoutChange
Spec == HandlerInit /\ [][Next]_vars

\* The handler with the engine left enabled, as New creates it.
NextEnabled == KeyEvent \/ LayoutChange
SpecEnabled == HandlerInit /\ [][NextEnabled]_vars

\* The handler driven with presses and releases of the trigger, of the keys
\* e and x, of the space bar (a key whose name is longer than one character)
\* and of a key without a name.
ComposeCodes == {KEY_LEFTALT, KEY_E, KEY_X, KEY_SPACE, KEY_CAPSLOCK}
ComposeValues == {1, 0}
ComposeEvent ==
    /\ \E c \in ComposeCodes, v \in ComposeValues : Process([Code |-> c, Value |-> v])
    /\ UNCHANGED mainVars
NextCompose == ComposeEvent \/ Toggle \/ LayoutChange
SpecCompose == HandlerInit /\ [][NextCompose]_vars

\* The handler with handleEvent in its two parts, so that SetEnabled and
\* SetLayout of another task run between the snapshot and its use.
ConcCodes == {KEY_LEFTALT, KEY_E, KEY_X}
ConcValues == {1, 0}
ConcEvent ==
    /\ \E c \in ConcCodes, v \in ConcValues : BeginEvent([Value |-> v, Code |-> c])
    /\ UNCHANGED mainVars
ConcFinish ==
    /\ FinishEvent
    /\ UNCHANGED mainVars
NextConc == ConcEvent \/ ConcFinish \/ Toggle \/ LayoutChange
SpecConc == HandlerInit /\ [][NextConc]_vars

Reader == \E d \in Devices : ReaderSelect(d) \/ ReaderRead(d) \/ ReaderSend(d)
MainNext ==
    \/ NewVirtualKeyboard \/ FindKeyboards \/ GrabDevices \/ StartTasks
    \/ Reader \/ ConsumerReceive \/ ConsumerCancelled
    \/ TrayToggle \/ TrayQuit \/ TrayExit
    \/ Signal \/ DeferCancel \/ DeferDevManagerClose \/ DeferVkbClose
MainSpec == Init /\ [][MainNext]_vars

\* main with the tray and the README's layout, the consumer receiving when
\* it can and every reader completing a send that stays possible.
TrayInit == Init /\ ~noTray /\ lookup = "azerty"
MainFairSpec ==
    /\ TrayInit
    /\ [][MainNext]_vars
    /\ WF_vars(ConsumerReceive)
    /\ \A d \in Devices : WF_vars(ReaderSend(d))

(***************************************************************************)
(* The virtual keyboard called directly, with the write that fails chosen. *)
(***************************************************************************)
\* U+00B4 (b4), U+00E9 (e9), U+0078 (78), U+03C0 (3c0), U+20AC (20ac), U+1D56F
Scalars == {180, 233, 120, 960, 8364, 120175}
Strings == {<<>>, <<233>>, <<180, 120>>, <<180, 233>>}
TargetCodes == {KEY_5, KEY_E}
ForwardCodes == {KEY_X, KEY_LEFTSHIFT}
ForwardValues == {-1, 0, 1, 2, 3}

\* The longest run here, TypeString of U+00B4 U+0078, makes 30 writes.
MaxFailAt == 30

Called(op, arg, shift, n, res) ==
    /\ call' = [n |-> n, op |-> op, arg |-> arg, shift |-> shift]
    /\ result' = res
    /\ UNCHANGED <<engineVars, pc, exit, noTray, vkb, vkbCloses, dmCloses, scanned,
                   keyboards, devices, grabbed, rpc, rbuf, events, ctxDone, cpc, tray,
                   trayEnabled, obsVars, fdCloses, keyVars, menuVars>>

CallTypeUnicode ==
    \E r \in Scalars, n \in 0..MaxFailAt :
        Called("TypeUnicode", r, FALSE, n, RunTypeUnicode(r, n))
CallTypeString ==
    \E s \in Strings, n \in 0..MaxFailAt :
        Called("TypeString", s, FALSE, n, RunTypeString(s, n))
CalltypeHexChar ==
    \E c \in 0..15, n \in 0..MaxFailAt :
        Called("typeHexChar", c, FALSE, n, RuntypeHexChar(c, n))
CallPassthroughWithRAlt ==
    \E k \in TargetCodes, n \in 0..MaxFailAt :
        Called("PassthroughWithRAlt", k, FALSE, n, RunPassthroughWithRAlt(k, n))
CallPassthroughWithShiftRAlt ==
    \E k \in TargetCodes, sh \in BOOLEAN, n \in 0..MaxFailAt :
        Called("PassthroughWithShiftRAlt", k, sh, n, RunPassthroughWithShiftRAlt(k, sh, n))
CallForwardEvent ==
    \E c \in ForwardCodes, v \in ForwardValues, n \in 0..MaxFailAt :
        Called("ForwardEvent", [Value |-> v, Code |-> c], FALSE, n, RunForwardEvent(c, v, n))

NextInject ==
    \/ CallTypeUnicode \/ CallTypeString \/ CalltypeHexChar
    \/ CallPassthroughWithRAlt \/ CallPassthroughWithShiftRAlt \/ CallForwardEvent
SpecInject == HandlerInit /\ [][NextInject]_vars

(***************************************************************************)
(* The DeviceManager called directly: FindKeyboards and Close in any order *)
(* and number.                                                             *)
(***************************************************************************)
MaxCloses == 3

\* FindKeyboards keeps each keyboard it finds under its path.
DmFindKeyboards ==
    /\ dmCloses < MaxCloses
    /\ \E kbs \in SUBSET Devices :
          /\ keyboards' = kbs
          /\ devices' = devices \cup kbs
    /\ scanned' = TRUE
    /\ UNCHANGED <<engineVars, pc, exit, noTray, vkb, vkbCloses, dmCloses, grabbed, rpc,
                   rbuf, events, ctxDone, cpc, tray, trayEnabled, obsVars, fdCloses,
                   apiVars>>
DmClose ==
    /\ dmCloses < MaxCloses
    /\ Close
    /\ UNCHANGED <<engineVars, pc, exit, noTray, vkb, vkbCloses, scanned, keyboards,
                   grabbed, rpc, rbuf, events, ctxDone, cpc, tray, trayEnabled, obsVars,
                   apiVars>>
NextDevices == DmFindKeyboards \/ DmClose
SpecDevices == HandlerInit /\ [][NextDevices]_vars

(***************************************************************************)
(* FindKeyboards over the input devices of a system.  A device is what     *)
(* evdev reports of it: whether Open succeeds, its name (or the failure of *)
(* Name), whether EV_KEY is among its capable types, and its key codes.    *)
(* A name is the sequence of its characters.                               *)
(***************************************************************************)
\* strings.ToLower on the characters the names use.
Lower == ("A" :> "a" @@ "S" :> "s" @@ "H" :> "h" @@ "I" :> "i" @@ "M" :> "m" @@ "P" :> "p")
ToLower(s) == [i \in 1..Len(s) |-> IF s[i] \in DOMAIN Lower THEN Lower[s[i]] ELSE s[i]]

\* strings.Contains
Contains(s, sub) ==
    \E i \in 1..(Len(s) - Len(sub) + 1) : SubSeq(s, i, i + Len(sub) - 1) = sub

\* "asahi-map", the text FindKeyboards looks for in the lowered name.
AsahiMap == <<"a", "s", "a", "h", "i", "-", "m", "a", "p">>

\* The name NewVirtualKeyboard gives the synthetic device, "asahi-map-virtual".
VirtualName == AsahiMap \o <<"-", "v", "i", "r", "t", "u", "a", "l">>

\* Name failed.
NoName == <<>>
DeviceNames ==
    {NoName, VirtualName, <<"k", "b", "d">>,
     <<"M", "y", " ", "A", "S", "A", "H", "I", "-", "M", "a", "p">>,
     <<"a", "s", "a", "h", "i", " ", "m", "a", "p">>}

\* The key codes a device can report: none, one modifier, one punctuation
\* key, letters of the three rows, and keys outside 30..52.
CodeSets ==
    {{}, {KEY_LEFTSHIFT}, {KEY_DOT}, {KEY_SEMICOLON}, {KEY_P}, {KEY_A, KEY_Z},
     {KEY_L, KEY_M, KEY_LEFTSHIFT}, {KEY_SLASH, KEY_1}}

InputDevices ==
    [opens : BOOLEAN, name : DeviceNames, evkey : BOOLEAN, codes : CodeSets]

isKeyboard(dev) ==
    /\ dev.evkey
    /\ \E code \in dev.codes : code >= 30 /\ code <= 52

\* One turn of the loop of FindKeyboards: what becomes of the device.
Probe(dev) ==
    IF ~dev.opens THEN "unopened"
    ELSE IF dev.name = NoName THEN "closed"
    ELSE IF ~isKeyboard(dev) THEN "closed"
    ELSE IF Contains(ToLower(dev.name), AsahiMap) THEN "closed"
    ELSE "kept"

\* FindKeyboards, called once as main does, on the devices hw of the system.
ScanDevices ==
    /\ ~scanned
    /\ \E hw \in [Devices -> InputDevices] :
          /\ call' = [n |-> 0, op |-> "FindKeyboards", arg |-> hw, shift |-> FALSE]
          /\ keyboards' = {d \in Devices : Probe(hw[d]) = "kept"}
          /\ devices' = devices \cup {d \in Devices : Probe(hw[d]) = "kept"}
          /\ fdCloses' = [d \in Devices |->
                            IF Probe(hw[d]) = "closed" THEN fdCloses[d] + 1 ELSE fdCloses[d]]
    /\ scanned' = TRUE
    /\ UNCHANGED <<engineVars, pc, exit, noTray, vkb, vkbCloses, dmCloses, grabbed, rpc,
                   rbuf, events, ctxDone, cpc, tray, trayEnabled, obsVars, result,
                   keyVars, menuVars>>
NextScan == ScanDevices \/ DmClose
SpecScan == HandlerInit /\ [][NextScan]_vars

(***************************************************************************)
(* The handler fed by a keyboard: a key is pressed when it is up, and it   *)
(* repeats or is released when it is down.  held follows every code        *)
(* written to the synthetic device.                                        *)
(***************************************************************************)
HeldAfter(hd, w) ==
    LET at(c) == {i \in 1..Len(w) : w[i].code = c}
        final(c) == w[CHOOSE i \in at(c) : \A j \in at(c) : j <= i].dir
    IN  {c \in hd \cup {w[i].code : i \in 1..Len(w)} :
            IF at(c) = {} THEN c \in hd ELSE final(c) = "down"}

KeyboardCodes == {KEY_LEFTALT, KEY_LEFTSHIFT, KEY_5, KEY_E, KEY_X}

\* What a keyboard sends for key c in turn: 1, then 2 any number of times,
\* then 0.
Sends(c, v) == IF v = 1 THEN c \notin phys ELSE c \in phys

KeyboardEvent ==
    /\ \E c \in KeyboardCodes, v \in InputValues :
          /\ Sends(c, v)
          /\ Process([Code |-> c, Value |-> v])
          /\ phys' = IF v = 0 THEN phys \ {c} ELSE phys \cup {c}
    /\ held' = HeldAfter(held, written')
    /\ UNCHANGED <<pc, exit, noTray, vkb, vkbCloses, dmCloses, scanned, keyboards,
                   devices, grabbed, rpc, rbuf, events, ctxDone, cpc, tray, trayEnabled,
                   obsVars, fdCloses, call, result, menuVars>>
NextKeyboard == KeyboardEvent
SpecKeyboard == HandlerInit /\ [][NextKeyboard]_vars

(***************************************************************************)
(* ProcessEvents over a synthetic device whose writes can fail: the event  *)
(* is handled as by handleEvent (every change of the handler's state       *)
(* precedes the call of the virtual keyboard), the call runs with write n  *)
(* failing, and an error returned is logged.                               *)
(***************************************************************************)
HandlingError == "error handling event"

ForwardRoutes ==
    {"modifier", "disabled", "release-forwarded", "repeat", "forward", "deadkey-unnamed"}

\* The operation of the virtual keyboard handleEvent calls on this route, if
\* any; ks is the tracker after UpdateFromEvent, adk the composer before.
VkbCall(route, ks, layout, adk, ev) ==
    LET keyName == KeyCodeToName[ev.Code]
        m == IF ShiftPressed(ks) THEN LookupShiftAlt(layout, keyName)
             ELSE LookupAlt(layout, keyName)
    IN
    IF route \in ForwardRoutes
    THEN [op |-> "ForwardEvent", arg |-> <<ev.Code, ev.Value>>, shift |-> FALSE]
    ELSE IF route = "passthrough" /\ m.Passthrough \in KnownNames
    THEN [op |-> IF ShiftPressed(ks) THEN "PassthroughWithShiftRAlt"
                 ELSE "PassthroughWithRAlt",
          arg |-> NameToKeyCode(m.Passthrough), shift |-> ShiftPressed(ks)]
    ELSE IF route \in {"arm", "unicode"} /\ GetOutput(m).ok
    THEN [op |-> "TypeUnicode", arg |-> GetOutput(m).r, shift |-> FALSE]
    ELSE IF route = "deadkey"
    THEN [op |-> "TypeString", arg |-> ApplyDeadKey(layout, adk, keyName).result,
          shift |-> FALSE]
    ELSE [op |-> "none", arg |-> 0, shift |-> FALSE]

\* The call with its write n failing (0: none).
RunCall(cl, n) ==
    IF cl.op = "ForwardEvent" THEN RunForwardEvent(cl.arg[1], cl.arg[2], n)
    ELSE IF cl.op = "PassthroughWithShiftRAlt"
    THEN RunPassthroughWithShiftRAlt(cl.arg, TRUE, n)
    ELSE IF cl.op = "PassthroughWithRAlt" THEN RunPassthroughWithRAlt(cl.arg, n)
    ELSE IF cl.op = "TypeUnicode" THEN RunTypeUnicode(cl.arg, n)
    ELSE IF cl.op = "TypeString" THEN RunTypeString(cl.arg, n)
    ELSE Done(n)

\* The writes that reached the device.
Reached(w) == SelectSeq(w, LAMBDA x : x.st # "failed")

\* handleEvent with write n failing: n is 0 or the number of a write of the
\* call.
HandleFailing(ev, n) ==
    \E ks \in {UpdateFromEvent(keyState, ev)} :
    \E res \in {handleEvent(ks, SnapshotEnabled, SnapshotLookup, activeDeadKey,
                            interceptedKeys, ev)} :
    \E cl \in {VkbCall(res.route, ks, SnapshotLookup, activeDeadKey, ev)} :
    \E run \in {RunCall(cl, n)} :
        /\ n = 0 \/ run.err
        /\ keyState' = ks
        /\ interceptedKeys' = res.interceptedKeys
        /\ activeDeadKey' = res.activeDeadKey
        /\ written' = Plain(run.w)
        /\ vdown' = ApplyWrites(vdown, Plain(Reached(run.w)))
        /\ last' = [op |-> "event", Code |-> ev.Code, Value |-> ev.Value, route |-> res.route]
        /\ remapped' = IF IsModifier(ev.Code) THEN remapped
                       ELSE IF IsPress(ev) /\ Remapping(res.route)
                       THEN remapped \cup {ev.Code}
                       ELSE IF IsRelease(ev) THEN remapped \ {ev.Code}
                       ELSE remapped
        /\ call' = IF cl.op = "none" THEN call
                   ELSE [n |-> n, op |-> cl.op, arg |-> cl.arg, shift |-> cl.shift]
        /\ result' = IF cl.op = "none" THEN result ELSE run
        /\ errlog' = IF run.err
                     THEN errlog \cup {[task |-> "consumer", err |-> HandlingError]}
                     ELSE errlog
        /\ UNCHANGED <<enabled, lookup, inflight>>

FailCodes == {KEY_LEFTALT, KEY_LEFTSHIFT, KEY_5, KEY_E}

\* go h.ProcessEvents(ctx, eventChan)
StartProcessEvents ==
    /\ cpc = "none"
    /\ cpc' = "select"
    /\ UNCHANGED <<engineVars, pc, exit, noTray, vkb, vkbCloses, dmCloses, scanned,
                   keyboards, devices, grabbed, rpc, rbuf, events, ctxDone, tray,
                   trayEnabled, obsVars, fdCloses, apiVars>>

ProcessEventsStep_ReturnsError ==
    /\ cpc = "select"
    /\ \E c \in FailCodes, v \in ComposeValues, n \in 0..MaxFailAt :
          HandleFailing([Code |-> c, Value |-> v], n)
    /\ cpc' = IF written' # <<>> /\ result'.err THEN "returned" ELSE cpc
    /\ UNCHANGED <<pc, exit, noTray, vkb, vkbCloses, dmCloses, scanned, keyboards,
                   devices, grabbed, rpc, rbuf, events, ctxDone, tray, trayEnabled,
                   reads, handled, fdCloses, keyVars, menuVars>>

\* ProcessEvents: one event through handleEvent; an error is logged and the
\* loop goes on.
ProcessEventsStep ==
    /\ cpc = "select"
    /\ \E c \in FailCodes, v \in ComposeValues, n \in 0..MaxFailAt :
          HandleFailing([Code |-> c, Value |-> v], n)
    /\ UNCHANGED <<pc, exit, noTray, vkb, vkbCloses, dmCloses, scanned, keyboards,
                   devices, grabbed, rpc, rbuf, events, ctxDone, cpc, tray, trayEnabled,
                   reads, handled, fdCloses, keyVars, menuVars>>
NextFail == StartProcessEvents \/ ProcessEventsStep
SpecFail == HandlerInit /\ [][NextFail]_vars

(***************************************************************************)
(* The layout menu of the tray: selectLayout and main's OnLayoutChange.    *)
(* The menu lists the .yaml files of the layouts directory; one of them    *)
(* cannot be loaded.                                                       *)
(***************************************************************************)
AvailableLayouts == LayoutNames \cup {"broken"}

\* mappings.LoadLayout returns an error: the file cannot be read or parsed.
LoadFails(name) == name \notin LayoutNames

LoadLayoutError == "failed to load layout"

\* OnLayoutChange: the layout is loaded, cfg.Layout is set and saved (the
\* error of Save is dropped), and the handler gets the new KeyLookup; when
\* the layout cannot be loaded the error is logged and nothing else is done.
OnLayoutChange(layoutName) ==
    IF LoadFails(layoutName)
    THEN /\ errlog' = errlog \cup {[task |-> "tray", err |-> LoadLayoutError]}
         /\ UNCHANGED <<engineVars, savedLayout>>
    ELSE /\ \E saved \in BOOLEAN :
               savedLayout' = IF saved THEN layoutName ELSE savedLayout
         /\ SetLayout(layoutName)
         /\ UNCHANGED errlog

\* Tray.selectLayout
selectLayout(layout) ==
    IF layout = trayLayout
    THEN UNCHANGED <<engineVars, trayLayout, savedLayout, errlog>>
    ELSE /\ trayLayout' = layout
         /\ OnLayoutChange(layout)

MenuSelect ==
    /\ \E l \in AvailableLayouts : selectLayout(l)
    /\ UNCHANGED <<pc, exit, noTray, vkb, vkbCloses, dmCloses, scanned, keyboards,
                   devices, grabbed, rpc, rbuf, events, ctxDone, cpc, tray, trayEnabled,
                   reads, handled, fdCloses, call, result, keyVars>>

MenuCodes == {KEY_LEFTALT, KEY_E, KEY_5}
MenuEvent ==
    /\ \E c \in MenuCodes, v \in ComposeValues : Process([Code |-> c, Value |-> v])
    /\ UNCHANGED mainVars
NextMenu == MenuSelect \/ MenuEvent

\* tray.New gets cfg.Layout, the layout of the configuration file, which is
\* the layout main has loaded for the handler.
MenuInit ==
    /\ EngineInit /\ MainInit /\ ~noTray
    /\ trayLayout = lookup
    /\ savedLayout = lookup
SpecMenu == MenuInit /\ [][NextMenu]_vars

(***************************************************************************)
(* The handler after SetLayout has installed the layout with the mistyped  *)
(* passthrough target.                                                     *)
(***************************************************************************)
TypoCodes == {KEY_LEFTALT, KEY_LEFTSHIFT, KEY_5, KEY_X}
TypoEvent ==
    /\ \E c \in TypoCodes, v \in InputValues : Process([Code |-> c, Value |-> v])
    /\ UNCHANGED mainVars
LayoutChangeTypo ==
    /\ SetLayout("typo")
    /\ UNCHANGED mainVars
NextTypo == TypoEvent \/ LayoutChangeTypo \/ Toggle
SpecTypo == HandlerInit /\ [][NextTypo]_vars

\* The handler under the layout with two dead keys, driven with presses and
\* releases of the trigger and of the keys e, x and 5.
AccentCodes == {KEY_LEFTALT, KEY_E, KEY_X, KEY_5}
AccentEvent ==
    /\ \E c \in AccentCodes, v \in ComposeValues : Process([Code |-> c, Value |-> v])
    /\ UNCHANGED mainVars
LayoutChangeAccents ==
    /\ SetLayout("accents")
    /\ UNCHANGED mainVars
NextAccents == AccentEvent \/ LayoutChangeAccents
SpecAccents == HandlerInit /\ [][NextAccents]_vars

\* The enabled handler while the layout is replaced by one that has an entry
\* for "5" only: the keys are the trigger, left Shift, 5 and e.
SwapCodes == {KEY_LEFTALT, KEY_LEFTSHIFT, KEY_5, KEY_E}
SwapEvent ==
    /\ \E c \in SwapCodes, v \in InputValues : Process([Code |-> c, Value |-> v])
    /\ UNCHANGED mainVars
NextSwap == SwapEvent \/ LayoutChangeTypo
SpecSwap == HandlerInit /\ [][NextSwap]_vars

(***************************************************************************)
(* Properties of the handler.                                              *)
(***************************************************************************)
KeyCodes == {c \in InputCodes : ~IsModifier(c)}
ShiftCodes == {KEY_LEFTSHIFT, KEY_RIGHTSHIFT}

\* The step handles the event (c, v).
Handles(c, v) == last'.op = "event" /\ last'.Code = c /\ last'.Value = v

Wrote(w, c, d) == \E i \in 1..Len(w) : w[i].code = c /\ w[i].dir = d

\* c has no entry in the Alt table nor in the Shift-Alt table in use.
Unmapped(c) ==
    \/ c \notin DOMAIN KeyCodeToName
    \/ /\ LookupAlt(SnapshotLookup, KeyCodeToName[c]) = Nil
       /\ LookupShiftAlt(SnapshotLookup, KeyCodeToName[c]) = Nil

\* C1: for every non-modifier key k, under every interleaving of key events
\* with SetEnabled and SetLayout: when the press of k was consumed and
\* remapped, the release of k writes no key-up of k on the synthetic device.
C1_RemappedPressReleaseNotForwarded ==
    [][\A k \in KeyCodes :
          (k \in remapped /\ Handles(k, 0)) => ~Wrote(written', k, "up")]_vars

\* C2: with the engine enabled, the release of an intercepted key k is
\* swallowed and removes k (and only k) from interceptedKeys, a release of a
\* key that is not in the set is forwarded as one key-up and leaves the set as
\* it is, events of other keys never change whether k is in the set, and the
\* set holds exactly the keys whose remapped press has not been released: it
\* is empty once they all are.
C2_ReleaseSwallowedExactlyOnce ==
    /\ [](enabled /\ interceptedKeys = remapped)
    /\ [][\A k \in KeyCodes :
            /\ Handles(k, 0) =>
                 IF k \in interceptedKeys
                 THEN written' = <<>> /\ interceptedKeys' = interceptedKeys \ {k}
                 ELSE written' = KeyUp(k) /\ interceptedKeys' = interceptedKeys
            /\ \A j \in InputCodes \ {k}, v \in InputValues :
                 Handles(j, v) => (k \in interceptedKeys' <=> k \in interceptedKeys)]_vars

\* C2 witness: with the trigger still held, the release of the intercepted
\* key 5 has just been swallowed, leaving the set empty.
C2_Witness ==
    /\ last.op = "event" /\ last.route = "release-swallowed" /\ last.Code = KEY_5
    /\ interceptedKeys = {}
    /\ keyState.LeftAlt

ComposerTakes(k) ==
    /\ enabled
    /\ ~LeftAltPressed(keyState)
    /\ HasActiveDeadKey(activeDeadKey)
    /\ k \in DOMAIN KeyCodeToName

C4_LeftAltNeverWritten ==
    /\ \A i \in 1..Len(written) : written[i].code # KEY_LEFTALT
    /\ (last.op = "event" /\ last.Code = KEY_LEFTALT) => written = <<>>
    /\ KEY_LEFTALT \notin vdown

\* C4 witness: a left-Alt release was handled while the engine was disabled
\* and an accent was armed.
C4_Witness ==
    /\ last.op = "event" /\ last.Code = KEY_LEFTALT /\ last.Value = 0
    /\ ~enabled /\ HasActiveDeadKey(activeDeadKey)

\* C5: every event of a modifier other than left-Alt is written with its own
\* code, as a key-up for a release and as a key-down for a press or a repeat,
\* and changes neither interceptedKeys nor the dead-key composer.
C5_OtherModifiersForwarded ==
    [][\A k \in TrackedCodes \ {KEY_LEFTALT}, v \in InputValues :
          Handles(k, v) =>
            /\ written' = <<[code |-> k, dir |-> IF v = 0 THEN "up" ELSE "down"]>>
            /\ interceptedKeys' = interceptedKeys
            /\ activeDeadKey' = activeDeadKey]_vars

\* C5 witness: a right-Alt press was forwarded while the engine was disabled,
\* the trigger held and an accent armed.
C5_Witness ==
    /\ last.op = "event" /\ last.Code = KEY_RIGHTALT /\ last.Value = 1
    /\ ~enabled /\ keyState.LeftAlt /\ HasActiveDeadKey(activeDeadKey)
    /\ written = KeyDown(KEY_RIGHTALT)

\* C6: while the engine is disabled every event of a key that is neither the
\* trigger nor a modifier is written unchanged and changes neither
\* interceptedKeys nor the dead-key composer.
C6_DisabledForwardsUnchanged ==
    [][\A k \in KeyCodes, v \in InputValues :
          (~enabled /\ Handles(k, v)) =>
            /\ written' = <<[code |-> k, dir |-> IF v = 0 THEN "up" ELSE "down"]>>
            /\ interceptedKeys' = interceptedKeys
            /\ activeDeadKey' = activeDeadKey]_vars

\* C6 witness: the press of the mapped key e was forwarded by the disabled
\* engine with the trigger held and an accent armed.
C6_Witness ==
    /\ last.op = "event" /\ last.Code = KEY_E /\ last.Value = 1
    /\ ~enabled /\ keyState.LeftAlt /\ HasActiveDeadKey(activeDeadKey)
    /\ written = KeyDown(KEY_E)

\* C10: a passthrough executed while the tracker has Shift held writes no
\* Shift key-down and no Shift key-up, so each Shift that is down on the
\* synthetic device before the call is still down after it.
C10_PassthroughKeepsUserShift ==
    [][(last'.op = "event" /\ last'.route = "passthrough" /\ ShiftPressed(keyState')) =>
          /\ \A i \in 1..Len(written') : written'[i].code \notin ShiftCodes
          /\ vdown' \cap ShiftCodes = vdown \cap ShiftCodes]_vars

\* C10 witness: Shift-Alt-5 was passed through with Shift held by the user
\* and Shift is down on the synthetic device after the call.
C10_Witness ==
    /\ last.op = "event" /\ last.route = "passthrough" /\ last.Code = KEY_5
    /\ keyState.LeftShift /\ KEY_LEFTSHIFT \in vdown
    /\ written = KeyDown(KEY_RIGHTALT) \o KeyDown(KEY_5) \o KeyUp(KEY_5) \o KeyUp(KEY_RIGHTALT)

(***************************************************************************)
(* Properties of main.                                                     *)
(***************************************************************************)
\* C7: on every way the process ends after the synthetic device and the
\* input devices have been opened, DeviceManager.Close and
\* VirtualKeyboard.Close have each run exactly once.
C7_CloseOnceOnEveryExit ==
    (exit # "running" /\ vkb # "none" /\ scanned) => (dmCloses = 1 /\ vkbCloses = 1)

\* C8: a reader task exists only for a grabbed device, and only events of
\* grabbed devices are in the shared queue.
C8_ReadersOnlyForGrabbed ==
    /\ \A d \in Devices : rpc[d] # "none" => d \in grabbed
    /\ \A i \in 1..Len(events) : events[i].Device \in grabbed

\* C9: once past startup some keyboard was discovered and some keyboard was
\* grabbed (otherwise the process ended with a fatal error), and the process
\* ends with a fatal error only before the readers are started.
C9_FatalOnlyAtStartup ==
    /\ pc \in {"start", "run"} => (keyboards # {} /\ grabbed # {})
    /\ exit = "exit1" => \A d \in Devices : rpc[d] = "none"

(***************************************************************************)
(* Properties of the passthrough protocol and of the dead-key composer.    *)
(***************************************************************************)
\* The mapping the handler selects for a named key: the Shift-Alt table when
\* a Shift is held, the Alt table otherwise.
Selected(k) ==
    IF ShiftPressed(keyState)
    THEN LookupShiftAlt(SnapshotLookup, KeyCodeToName[k])
    ELSE LookupAlt(SnapshotLookup, KeyCodeToName[k])

RAltTap(t) == <<[code |-> KEY_RIGHTALT, dir |-> "down"], [code |-> t, dir |-> "down"],
                [code |-> t, dir |-> "up"], [code |-> KEY_RIGHTALT, dir |-> "up"]>>

\* The passthrough protocols, for every target: modifiers pressed, target
\* tapped, modifiers released in the reverse order.
PassthroughOrdered ==
    \A t \in DOMAIN KeyCodeToName :
       /\ PassthroughWithRAlt(t) = RAltTap(t)
       /\ PassthroughWithShiftRAlt(t, TRUE) = RAltTap(t)
       /\ PassthroughWithShiftRAlt(t, FALSE) =
            <<[code |-> KEY_LEFTSHIFT, dir |-> "down"]>> \o RAltTap(t)
               \o <<[code |-> KEY_LEFTSHIFT, dir |-> "up"]>>

\* C11: a trigger event writes nothing, and a press, with the trigger held and
\* the engine enabled, of a key mapped to the passthrough of a known target t
\* (as "5" is to "5") writes exactly right-Alt down, t down, t up, right-Alt up;
\* the protocols themselves press their modifiers (Shift first when they press
\* it), tap the target and release the modifiers in the reverse order.
C11_PassthroughSequence ==
    [][/\ \A v \in InputValues : Handles(KEY_LEFTALT, v) => written' = <<>>
       /\ \A k \in KeyCodes \cap DOMAIN KeyCodeToName :
            (/\ Handles(k, 1) /\ enabled /\ LeftAltPressed(keyState)
             /\ Selected(k) # Nil
             /\ Selected(k).Passthrough \in KnownNames)
            => written' = RAltTap(NameToKeyCode(Selected(k).Passthrough))
       /\ PassthroughOrdered]_vars

\* C11 witness: trigger down, then 5 down with no Shift held, under the layout
\* that maps "5" to the passthrough of "5": the four writes were made.
C11_Witness ==
    /\ last.op = "event" /\ last.Code = KEY_5 /\ last.Value = 1
    /\ last.route = "passthrough"
    /\ lookup = "azerty" /\ keyState.LeftAlt /\ ~ShiftPressed(keyState)
    /\ written = <<[code |-> KEY_RIGHTALT, dir |-> "down"], [code |-> KEY_5, dir |-> "down"],
                   [code |-> KEY_5, dir |-> "up"], [code |-> KEY_RIGHTALT, dir |-> "up"]>>

\* The named keys that are not modifiers, among the codes of Spec and of
\* SpecCompose.
NamedKeys == {c \in (InputCodes \cup ComposeCodes) : ~IsModifier(c) /\ c \in DOMAIN KeyCodeToName}

\* The armed definition.
Armed == SnapshotLookup.DeadKeys[activeDeadKey]

\* The armed composer is offered the press of k.
Offered(k) ==
    /\ Handles(k, 1)
    /\ enabled /\ ~LeftAltPressed(keyState)
    /\ HasActiveDeadKey(activeDeadKey)

\* C12: when an accent is armed and the enabled engine handles, with the
\* trigger not held, the press of a named key that is in the combinations of
\* the armed definition, the composer is disarmed, the writes are exactly
\* those of TypeString of the combined string (the raw press is not
\* forwarded), and the code is marked intercepted; its release is then
\* swallowed.
C12_DeadKeyHitTypesCombination ==
    [][\A k \in NamedKeys :
          /\ (Offered(k) /\ KeyCodeToName[k] \in DOMAIN Armed.Combinations) =>
                /\ activeDeadKey' = NoDeadKey
                /\ written' = TypeString(Armed.Combinations[KeyCodeToName[k]])
                /\ interceptedKeys' = interceptedKeys \cup {k}
          /\ (Handles(k, 0) /\ enabled /\ k \in interceptedKeys) =>
                written' = <<>> /\ k \notin interceptedKeys']_vars

\* C12 witness: with acute armed and the trigger up, the press of e typed the
\* combined letter, disarmed the composer and left e intercepted.
C12_Witness ==
    /\ last.op = "event" /\ last.Code = KEY_E /\ last.Value = 1 /\ last.route = "deadkey"
    /\ ~keyState.LeftAlt
    /\ written = TypeString(EAcute)
    /\ activeDeadKey = NoDeadKey
    /\ KEY_E \in interceptedKeys

\* The character a named key stands for.
KeyChar(name) ==
    CASE name = "space" -> 32
      [] name = "minus" -> 45
      [] name = "equal" -> 61
      [] name = "leftbrace" -> 91
      [] name = "rightbrace" -> 93
      [] name = "semicolon" -> 59
      [] name = "apostrophe" -> 39
      [] name = "grave" -> 96
      [] name = "backslash" -> 92
      [] name = "comma" -> 44
      [] name = "dot" -> 46
      [] name = "slash" -> 47
      [] name = "102nd" -> 60
      [] OTHER -> NameRunes(name)[1]

\* C13: when an accent is armed and the pressed named key is not in the
\* combinations of the armed definition, the composer is disarmed and what is
\* typed is exactly the base glyph followed by the character of the key (for
\* the space bar: the base glyph followed by a space, or the bare base glyph
\* as the README has it), whatever the length of the key's name.
C13_DeadKeyMissTypesBaseAndChar ==
    [][\A k \in NamedKeys :
          (Offered(k) /\ KeyCodeToName[k] \notin DOMAIN Armed.Combinations) =>
             /\ activeDeadKey' = NoDeadKey
             /\ \/ written' = TypeString(Armed.Base \o <<KeyChar(KeyCodeToName[k])>>)
                \/ k = KEY_SPACE /\ written' = TypeString(Armed.Base)]_vars

\* C14 as stated: once an accent is armed, the next press of a non-modifier
\* key ends the cycle, also with the trigger held or the engine disabled: the
\* composer is disarmed by it (or armed anew by a dead-key mapping).
C14_ArmedAccentEndsWithNextPress ==
    [][\A k \in KeyCodes :
          (HasActiveDeadKey(activeDeadKey) /\ Handles(k, 1)) =>
             (activeDeadKey' = NoDeadKey \/ last'.route = "arm")]_vars

\* C14 amended: the composer holds one accent or none; the press of a
\* non-modifier key handled with an accent armed, the engine enabled and the
\* trigger not held disarms the composer, and only an armed composer ever
\* combines, being disarmed by it; a press handled with the trigger held or
\* with the engine disabled leaves the composer armed, with the same accent
\* unless the press executes a dead-key mapping; releases, repeats, modifier
\* events and SetEnabled leave the composer as it is, and SetLayout leaves no
\* accent armed.
C14_OneAttemptPerOfferedPress ==
    /\ [](activeDeadKey = NoDeadKey \/ activeDeadKey \in DOMAIN SnapshotLookup.DeadKeys)
    /\ [][/\ \A k \in KeyCodes :
               (HasActiveDeadKey(activeDeadKey) /\ Handles(k, 1)) =>
                  IF enabled /\ ~LeftAltPressed(keyState)
                  THEN activeDeadKey' = NoDeadKey
                  ELSE /\ HasActiveDeadKey(activeDeadKey')
                       /\ last'.route # "arm" => activeDeadKey' = activeDeadKey
          /\ \A c \in InputCodes, v \in InputValues :
               (Handles(c, v) /\ (v # 1 \/ IsModifier(c))) => activeDeadKey' = activeDeadKey
          /\ (last'.op = "event" /\ last'.route = "deadkey") =>
               (HasActiveDeadKey(activeDeadKey) /\ activeDeadKey' = NoDeadKey)
          /\ last'.op = "SetEnabled" => activeDeadKey' = activeDeadKey
          /\ last'.op = "SetLayout" => activeDeadKey' = NoDeadKey]_vars

\* C14 witness: with acute armed and the trigger still held, the press of 5
\* was passed through and the accent is still armed.
C14_Witness ==
    /\ last.op = "event" /\ last.Code = KEY_5 /\ last.Value = 1 /\ last.route = "passthrough"
    /\ enabled /\ keyState.LeftAlt
    /\ activeDeadKey = "acute"

\* C15: the press, with the trigger held and the engine enabled, of a key
\* whose selected mapping is a dead-key activation leaves the composer armed
\* with the definition the mapping's id names and writes exactly one
\* TypeUnicode of the mapping's glyph; and with acute armed that way, the
\* press of e after the release of the trigger types the combined letter.
C15_ActivationArmsAndTypesBase ==
    [][/\ \A k \in NamedKeys :
            (/\ Handles(k, 1) /\ enabled /\ LeftAltPressed(keyState)
             /\ Selected(k) # Nil
             /\ Selected(k).Passthrough = "" /\ Selected(k).IsDeadKey)
            => /\ activeDeadKey' = Selected(k).DeadKeyID
               /\ Selected(k).Char # <<>>
               /\ written' = TypeUnicode(Selected(k).Char[1])
       /\ (Offered(KEY_E) /\ lookup = "azerty" /\ activeDeadKey = "acute") =>
            written' = TypeUnicode(233)]_vars

(***************************************************************************)
(* Properties of the readers, the shared queue and the consumer.           *)
(***************************************************************************)
\* The key events of device d that were read and not yet handled, oldest
\* first: those in the queue, then the one its reader is publishing.
InFlight(d) ==
    SelectSeq(events, LAMBDA e : e.Device = d)
        \o (IF rpc[d] = "send" THEN <<rbuf[d]>> ELSE <<>>)

C17_NoEventHandledAfterCancel ==
    [][ctxDone => handled' = handled]_vars

\* C18: no task logs an error for having stopped on cancellation.
C18_CancellationIsNotAnError ==
    \A e \in errlog : e.err # Canceled

\* C19: after the cancellation signal, with the consumer returned, no reader
\* is left publishing to a queue that is full.
C19_NoReaderBlockedAfterCancel ==
    \A d \in Devices :
       (ctxDone /\ cpc = "returned" /\ Len(events) >= QueueCap) => rpc[d] # "send"

(***************************************************************************)
(* Properties of SetEnabled and SetLayout called by another task.          *)
(***************************************************************************)
\* C20: with SetEnabled and SetLayout running between the two parts of
\* handleEvent: the snapshot an event takes is the enable flag and the
\* KeyLookup installed at that moment; the calls leave the snapshot of the
\* event in flight as it is; the event is decided, its mapping executed and
\* its dead key armed or combined on that snapshot alone, a KeyLookup that
\* was replaced in between keeping its composer to itself, so that an accent
\* armed in the installed KeyLookup is always a definition of its layout;
\* SetEnabled changes the enable flag only, and SetLayout only installs the
\* KeyLookup handed to it, in which no accent is armed.
C20_DecidedOnOneSnapshot ==
    /\ [](HasActiveDeadKey(activeDeadKey) => activeDeadKey \in DOMAIN SnapshotLookup.DeadKeys)
    /\ [][/\ (~inflight.busy /\ inflight'.busy) =>
               /\ inflight'.enabled = enabled /\ inflight'.lookup = lookup
               /\ inflight'.adk = activeDeadKey /\ inflight'.installed
          /\ (inflight.busy /\ inflight'.busy) =>
               /\ inflight'.ev = inflight.ev
               /\ inflight'.enabled = inflight.enabled
               /\ inflight'.lookup = inflight.lookup
               /\ inflight'.adk = inflight.adk
          /\ (inflight.busy /\ ~inflight'.busy) =>
               LET res == handleEvent(keyState, inflight.enabled, LoadLayout(inflight.lookup),
                                      inflight.adk, interceptedKeys, inflight.ev)
               IN  /\ written' = res.written
                   /\ interceptedKeys' = res.interceptedKeys
                   /\ activeDeadKey' = IF inflight.installed THEN res.activeDeadKey
                                        ELSE activeDeadKey
                   /\ enabled' = enabled /\ lookup' = lookup
          /\ last'.op = "SetEnabled" =>
               /\ written' = <<>>
               /\ UNCHANGED <<lookup, activeDeadKey, keyState, interceptedKeys, vdown>>
          /\ last'.op = "SetLayout" =>
               /\ written' = <<>>
               /\ activeDeadKey' = NoDeadKey
               /\ UNCHANGED <<enabled, keyState, interceptedKeys, vdown>>]_vars

\* C20 witness: the press of e took its snapshot under the README's layout,
\* the other layout was installed before the press was decided, and the press
\* was decided as that layout's dead-key activation: the accent was typed and
\* no accent is armed in the KeyLookup now installed.
C20_Witness ==
    /\ last.op = "event" /\ last.Code = KEY_E /\ last.Value = 1 /\ last.route = "arm"
    /\ lookup = "plain"
    /\ written = TypeUnicode(180)
    /\ activeDeadKey = NoDeadKey

(***************************************************************************)
(* Injection sequences under write failures, the DeviceManager, the        *)
(* tracker and the routing of presses and repeats.                         *)
(***************************************************************************)
MultiStep == {"TypeUnicode", "typeHexChar", "PassthroughWithRAlt", "PassthroughWithShiftRAlt"}
InjectModifiers == {KEY_LEFTCTRL, KEY_LEFTSHIFT, KEY_RIGHTALT}

\* Every modifier w pressed has a release attempted after the press.
ReleasesAttempted(w) ==
    \A i \in 1..Len(w) :
        (w[i].dir = "down" /\ w[i].st = "ok" /\ w[i].code \in InjectModifiers)
        => \E j \in (i + 1)..Len(w) : w[j].code = w[i].code /\ w[j].dir = "up"

\* Every release of Shift w attempts follows a press of Shift made in w.
NoForeignShiftRelease(w) ==
    \A j \in 1..Len(w) :
        (w[j].code = KEY_LEFTSHIFT /\ w[j].dir = "up")
        => \E i \in 1..(j - 1) :
              w[i].code = KEY_LEFTSHIFT /\ w[i].dir = "down" /\ w[i].st = "ok"

\* C21: when a multi-step injection sequence (typeUnicode, a hex digit,
\* passthrough with Right-Alt, passthrough with Shift and Right-Alt) fails at
\* a write, then by the time the error is returned a release has been
\* attempted for every modifier the sequence pressed, and no release of Shift
\* is attempted unless the sequence pressed Shift.
C21_CleanupOnFailure ==
    (call.op \in MultiStep /\ result.err)
    => /\ ReleasesAttempted(result.w)
       /\ NoForeignShiftRelease(result.w)

\* typeUnicode failed while tapping U: Shift and Ctrl are released on the way out.
C21_Witness ==
    /\ call.op = "TypeUnicode"
    /\ result.err
    /\ Len(result.w) = 5
    /\ result.w[3].st = "failed"
    /\ result.w[4] = [code |-> KEY_LEFTSHIFT, dir |-> "up", st |-> "ignored"]
    /\ result.w[5] = [code |-> KEY_LEFTCTRL, dir |-> "up", st |-> "ignored"]

AllOk(w) == [i \in 1..Len(w) |-> [code |-> w[i].code, dir |-> w[i].dir, st |-> "ok"]]

\* The writes of the first k scalars of s typed completely.
Total(s, k) == Len(TypeString(SubSeq(s, 1, k)))

\* C22: typeString types the scalars of its argument in order, each by a
\* complete typeUnicode; when typing a scalar fails, what was attempted is the
\* complete sequences of the scalars before it followed by the failed run of
\* that scalar, nothing of a later scalar, and the error is returned.
C22_TypeStringStopsAtFirstError ==
    call.op = "TypeString"
    => LET s == call.arg
           n == call.n
       IN  IF n = 0 \/ n > Total(s, Len(s))
           THEN ~result.err /\ result.w = AllOk(TypeString(s))
           ELSE \E k \in 1..Len(s) :
                   /\ Total(s, k - 1) < n
                   /\ n <= Total(s, k)
                   /\ result.err
                   /\ result.w = AllOk(TypeString(SubSeq(s, 1, k - 1)))
                                    \o RunTypeUnicode(s[k], n - Total(s, k - 1)).w

\* The first scalar of a string of two fails at its third write.
C22_Witness ==
    /\ call.op = "TypeString"
    /\ call.arg = <<180, 233>>
    /\ call.n = 3
    /\ result.err
    /\ Len(result.w) = 5

\* A step that is a call of DeviceManager.Close.
Closes == dmCloses' = dmCloses + 1

\* C23: closing all devices is idempotent.  A call of Close closes every
\* device the manager holds exactly once, closes no other, and leaves the set
\* of held devices empty; a call made when the set is already empty closes
\* nothing and leaves the manager as it was.
C23_CloseAllIdempotent ==
    [][Closes =>
        /\ \A d \in devices : fdCloses'[d] = fdCloses[d] + 1
        /\ \A d \in Devices \ devices : fdCloses'[d] = fdCloses[d]
        /\ devices' = {}
        /\ (devices = {} => UNCHANGED <<devices, fdCloses, keyboards, grabbed>>)]_vars

\* Close was called twice, once of them on a manager holding nothing, and
\* both devices FindKeyboards returned were closed once.
C23_Witness ==
    /\ dmCloses = 2
    /\ keyboards = Devices
    /\ devices = {}
    /\ fdCloses = [d \in Devices |-> 1]

\* The key a hexadecimal digit is typed on, and whether under Shift.
DigitKeys == <<KEY_0, KEY_1, KEY_2, KEY_3, KEY_4, KEY_5, KEY_6, KEY_7, KEY_8, KEY_9>>
LetterKeys == <<KEY_Q, KEY_B, KEY_C, KEY_D, KEY_E, KEY_F>>
Tap(k) == <<[code |-> k, dir |-> "down"], [code |-> k, dir |-> "up"]>>
DigitWrites(c) ==
    IF c < 10
    THEN <<[code |-> KEY_LEFTSHIFT, dir |-> "down"]>> \o Tap(DigitKeys[c + 1])
             \o <<[code |-> KEY_LEFTSHIFT, dir |-> "up"]>>
    ELSE Tap(LetterKeys[c - 9])

RECURSIVE AllDigitWrites(_)
AllDigitWrites(hex) ==
    IF hex = <<>> THEN <<>> ELSE DigitWrites(Head(hex)) \o AllDigitWrites(Tail(hex))

\* The number a sequence of hexadecimal digits writes.
RECURSIVE HexValue(_)
HexValue(hex) ==
    IF hex = <<>> THEN 0 ELSE 16 * HexValue(SubSeq(hex, 1, Len(hex) - 1)) + hex[Len(hex)]

UnicodePrefix ==
    <<[code |-> KEY_LEFTCTRL, dir |-> "down"], [code |-> KEY_LEFTSHIFT, dir |-> "down"],
      [code |-> KEY_U, dir |-> "down"], [code |-> KEY_U, dir |-> "up"],
      [code |-> KEY_LEFTSHIFT, dir |-> "up"], [code |-> KEY_LEFTCTRL, dir |-> "up"]>>

\* Every key w writes to is up after w.
NothingPressed(w) ==
    \A i \in 1..Len(w) :
        w[i].dir = "down" => \E j \in (i + 1)..Len(w) : w[j].code = w[i].code /\ w[j].dir = "up"

UnicodeSequence(r) ==
    LET hex == HexDigits(r) IN
    /\ HexValue(hex) = r
    /\ \A i \in 1..Len(hex) : hex[i] \in 0..15
    /\ (Len(hex) > 1 => hex[1] # 0)
    /\ TypeUnicode(r) = UnicodePrefix \o AllDigitWrites(hex) \o Tap(KEY_SPACE)
    /\ NothingPressed(TypeUnicode(r))

\* C24: typeUnicode of a scalar, when no write fails, writes exactly Ctrl
\* down, Shift down, U down, U up, Shift up, Ctrl up, then for each digit of
\* the scalar's hexadecimal form (most significant first, no leading zero) a
\* tap of its key (0-9 on the digit key between Shift down and Shift up, a on
\* Q, b-f on their own keys), then a tap of Space, and every key it pressed
\* is released at the end.
C24_UnicodeInjectionSequence ==
    (call.op = "TypeUnicode" /\ ~result.err)
    => /\ UnicodeSequence(call.arg)
       /\ Plain(result.w) = TypeUnicode(call.arg)

\* U+20AC typed without a failure: digits under Shift and the letters a and c.
C24_Witness ==
    /\ call.op = "TypeUnicode"
    /\ call.arg = 8364
    /\ ~result.err
    /\ Len(result.w) = 20

\* The flag of the tracker each modifier code has.
FlagOf ==
    KEY_LEFTALT :> "LeftAlt" @@ KEY_RIGHTALT :> "RightAlt"
    @@ KEY_LEFTSHIFT :> "LeftShift" @@ KEY_RIGHTSHIFT :> "RightShift"
    @@ KEY_LEFTCTRL :> "LeftCtrl" @@ KEY_RIGHTCTRL :> "RightCtrl"
    @@ KEY_LEFTMETA :> "LeftMeta" @@ KEY_RIGHTMETA :> "RightMeta"

\* The tracker after the event (c, v), as the claim has it.
Tracked(ks, c, v) ==
    IF c \in DOMAIN FlagOf /\ v = 1 THEN [ks EXCEPT ![FlagOf[c]] = TRUE]
    ELSE IF c \in DOMAIN FlagOf /\ v = 0 THEN [ks EXCEPT ![FlagOf[c]] = FALSE]
    ELSE ks

KeyStates ==
    [LeftAlt : BOOLEAN, RightAlt : BOOLEAN, LeftShift : BOOLEAN, RightShift : BOOLEAN,
     LeftCtrl : BOOLEAN, RightCtrl : BOOLEAN, LeftMeta : BOOLEAN, RightMeta : BOOLEAN]

\* UpdateFromEvent on every tracker, for the eight modifiers, a named key
\* and an unnamed key, and press, release and repeat.
TrackerTable ==
    /\ Cardinality({FlagOf[c] : c \in DOMAIN FlagOf}) = 8
    /\ DOMAIN FlagOf = {c \in DOMAIN FlagOf \cup {KEY_X, KEY_CAPSLOCK} : IsModifier(c)}
    /\ \A ks \in KeyStates, c \in DOMAIN FlagOf \cup {KEY_X, KEY_CAPSLOCK}, v \in InputValues :
          UpdateFromEvent(ks, [Code |-> c, Value |-> v]) = Tracked(ks, c, v)

\* C25: every event the handler handles updates the tracker, whether the
\* event is the consumed left Alt or the engine is disabled: a press of a
\* modifier sets its flag, a release clears it, a repeat or a non-modifier
\* leaves the eight flags as they were.  Left and right Alt have separate
\* flags, and only left Alt is the trigger: it alone is consumed, and a press
\* with right Alt held and left Alt not held is never looked up in a table.
C25_TrackerFollowsEveryEvent ==
    [][/\ TrackerTable
       /\ \A c \in InputCodes, v \in InputValues :
            Handles(c, v)
            => /\ keyState' = Tracked(keyState, c, v)
               /\ (last'.route = "trigger") = (c = KEY_LEFTALT)
               /\ (v = 1 /\ ~keyState'.LeftAlt)
                  => last'.route \notin {"passthrough", "arm", "unicode"}]_vars

\* The engine is disabled, left Alt was pressed and consumed, and the tracker
\* has it held while right Alt is not.
C25_Witness ==
    /\ ~enabled
    /\ last = [op |-> "event", Code |-> KEY_LEFTALT, Value |-> 1, route |-> "trigger"]
    /\ keyState.LeftAlt
    /\ ~keyState.RightAlt
    /\ written = <<>>

\* The table the press of a key is looked up in, given the tracker.
TableInUse(ks) ==
    IF ks.LeftShift \/ ks.RightShift THEN SnapshotLookup.ShiftAlt ELSE SnapshotLookup.Alt

RouteOf(m) ==
    IF m.Passthrough # "" THEN "passthrough" ELSE IF m.IsDeadKey THEN "arm" ELSE "unicode"

\* C26: when the enabled engine handles the press of a key with the trigger
\* held, the key is looked up in the Shift-Alt table if a Shift is held and in
\* the Alt table otherwise.  A key without a name or without an entry in that
\* table is forwarded as one key-down and is not marked intercepted; a key
\* with an entry is marked intercepted, the mapping of that entry is executed
\* and the raw press is not forwarded.
C26_TriggerHeldLookup ==
    [][\A c \in KeyCodes :
          (Handles(c, 1) /\ enabled /\ keyState'.LeftAlt)
          => IF c \notin DOMAIN KeyCodeToName
                \/ KeyCodeToName[c] \notin DOMAIN TableInUse(keyState')
             THEN /\ written' = <<[code |-> c, dir |-> "down"]>>
                  /\ interceptedKeys' = interceptedKeys
             ELSE LET m == TableInUse(keyState')[KeyCodeToName[c]] IN
                  /\ c \in interceptedKeys'
                  /\ last'.route = RouteOf(m)
                  /\ written' = executeMapping(m, keyState', SnapshotLookup, activeDeadKey).written
                  /\ written' # <<[code |-> c, dir |-> "down"]>>]_vars

\* Shift-Alt-e in the README's layout: the code point of the Shift-Alt table
\* is typed, not the dead key of the Alt table.
C26_Witness ==
    /\ enabled /\ lookup = "azerty"
    /\ keyState.LeftAlt /\ keyState.LeftShift
    /\ last = [op |-> "event", Code |-> KEY_E, Value |-> 1, route |-> "unicode"]
    /\ KEY_E \in interceptedKeys
    /\ activeDeadKey = NoDeadKey
    /\ written = TypeUnicode(960)

\* The entry the press of c selects is a passthrough whose target names no key.
UnknownTarget(c) ==
    /\ c \in DOMAIN KeyCodeToName
    /\ KeyCodeToName[c] \in DOMAIN TableInUse(keyState')
    /\ TableInUse(keyState')[KeyCodeToName[c]].Passthrough # ""
    /\ TableInUse(keyState')[KeyCodeToName[c]].Passthrough \notin KnownNames

\* C27: a passthrough mapping whose target names no key writes nothing; the
\* press that selected it is marked intercepted all the same, so the raw
\* press is not forwarded and the release of the key is swallowed.
C27_UnknownPassthroughTarget ==
    [][\A c \in KeyCodes :
          /\ (Handles(c, 1) /\ enabled /\ keyState'.LeftAlt /\ UnknownTarget(c))
             => /\ written' = <<>>
                /\ c \in interceptedKeys'
                /\ activeDeadKey' = activeDeadKey
          /\ (Handles(c, 0) /\ enabled /\ c \in interceptedKeys)
             => /\ written' = <<>>
                /\ c \notin interceptedKeys']_vars

\* Alt-5 under the layout with the mistyped target: nothing written, the key
\* marked.
C27_Witness ==
    /\ enabled /\ lookup = "typo"
    /\ keyState.LeftAlt
    /\ last = [op |-> "event", Code |-> KEY_5, Value |-> 1, route |-> "passthrough"]
    /\ written = <<>>
    /\ KEY_5 \in interceptedKeys

\* C28: when an accent is armed and the enabled engine handles, with the
\* trigger not held, the press of a key that has no name, the composer is
\* disarmed, the press is forwarded as one key-down of that key and nothing
\* else is written, and the key is not marked intercepted.
C28_UnnamedKeyDisarms ==
    [][\A c \in KeyCodes :
          (Handles(c, 1) /\ enabled /\ ~keyState'.LeftAlt
              /\ HasActiveDeadKey(activeDeadKey) /\ c \notin DOMAIN KeyCodeToName)
          => /\ activeDeadKey' = NoDeadKey
             /\ written' = <<[code |-> c, dir |-> "down"]>>
             /\ interceptedKeys' = interceptedKeys]_vars

\* Caps Lock was pressed while the acute accent was armed.
C28_Witness ==
    /\ enabled /\ lookup = "azerty"
    /\ last = [op |-> "event", Code |-> KEY_CAPSLOCK, Value |-> 1, route |-> "deadkey-unnamed"]
    /\ activeDeadKey = NoDeadKey
    /\ written = <<[code |-> KEY_CAPSLOCK, dir |-> "down"]>>
    /\ KEY_CAPSLOCK \notin interceptedKeys

\* C29: a repeat of a key that is not a modifier is forwarded as one
\* key-down of that key, whatever the tables hold and whether the trigger is
\* held, the engine enabled or an accent armed: the composer and the set of
\* intercepted keys are left as they were.
C29_RepeatForwardedUnmapped ==
    [][\A c \in KeyCodes :
          Handles(c, 2)
          => /\ written' = <<[code |-> c, dir |-> "down"]>>
             /\ activeDeadKey' = activeDeadKey
             /\ interceptedKeys' = interceptedKeys
             /\ UNCHANGED <<enabled, lookup, keyState>>]_vars

\* A repeat of Alt-e, which the Alt table maps, with the trigger held.
C29_Witness ==
    /\ enabled /\ lookup = "azerty"
    /\ keyState.LeftAlt /\ ~keyState.LeftShift
    /\ last = [op |-> "event", Code |-> KEY_E, Value |-> 2, route |-> "repeat"]
    /\ written = <<[code |-> KEY_E, dir |-> "down"]>>
    /\ activeDeadKey = NoDeadKey

\* C30: forward writes one key-up of the code for value 0, one key-down for
\* value 1 and one key-down for value 2 (never a down and an up); for any
\* other value it writes nothing and returns no error, even on a device whose
\* next write would fail.
C30_ForwardByValue ==
    call.op = "ForwardEvent"
    => LET c == call.arg.Code
           v == call.arg.Value
       IN  /\ Plain(result.w) = ForwardEvent(c, v)
           /\ v = 0 => Plain(result.w) = <<[code |-> c, dir |-> "up"]>>
           /\ v \in {1, 2} => Plain(result.w) = <<[code |-> c, dir |-> "down"]>>
           /\ v \in {0, 1, 2} => (result.err = (call.n = 1))
           /\ v \notin {0, 1, 2} => (result.w = <<>> /\ ~result.err)

\* A value that is none of release, press and repeat, with the device failing.
C30_Witness ==
    /\ call.op = "ForwardEvent"
    /\ call.arg.Value = 3
    /\ call.n = 1
    /\ result.w = <<>>
    /\ ~result.err

(***************************************************************************)
(* Reader failures, re-arming, enumeration, stuck keys, modifiers after an *)
(* injection, layout swaps, injection failures, the tray's layout and the  *)
(* content of interceptedKeys.                                             *)
(***************************************************************************)
\* The step in which the read of device d fails and its reader returns.
ReaderFails(d) == rpc[d] = "read" /\ rpc'[d] = "failed"

\* C31: a failed read ends the reader of that device only: the step changes
\* nothing of the other readers, of the consumer, of the queue, of the
\* cancellation signal or of main, which keeps running; and every event the
\* reader of another device has read is still handled in the end, unless the
\* cancellation signal is raised or the process ends first.
C31_ReadFailureEndsOneReader ==
    /\ [][\A d \in Devices :
            ReaderFails(d)
            => /\ \A e \in Devices \ {d} : rpc'[e] = rpc[e] /\ rbuf'[e] = rbuf[e]
               /\ UNCHANGED <<cpc, events, ctxDone, pc, exit, devices, grabbed>>
               /\ exit = "running"
               /\ [task |-> d, err |-> ReadError] \in errlog']_vars
    /\ \A d \in Devices : \A e \in Devices \ {d} : \A n \in 1..MaxReads :
          (rpc[d] = "failed" /\ reads[e] >= n)
             ~> (handled[e] >= n \/ ctxDone \/ exit # "running")

\* The reader of event0 failed before it read anything; every event of
\* event1 was handled and the process runs on.
C31_Witness ==
    /\ rpc["event0"] = "failed" /\ reads["event0"] = 0
    /\ handled["event1"] = MaxReads
    /\ rpc["event1"] \in {"select", "read"}
    /\ cpc = "select" /\ exit = "running" /\ ~ctxDone

\* The enabled engine executes, for the press of k with the trigger held, a
\* dead-key mapping while an accent is armed.
Rearms(k) ==
    /\ Handles(k, 1) /\ enabled /\ LeftAltPressed(keyState)
    /\ HasActiveDeadKey(activeDeadKey)
    /\ Selected(k) # Nil
    /\ Selected(k).Passthrough = "" /\ Selected(k).IsDeadKey

\* C32: when a dead-key mapping is executed while an accent is armed, the
\* composer is afterwards armed with the accent the mapping names and with no
\* other (last wins); and the combining press that follows is resolved in the
\* definition that mapping names, so that the earlier accent is not applied.
C32_RearmLastWins ==
    [][/\ \A k \in NamedKeys :
            Rearms(k) => activeDeadKey' = Selected(k).DeadKeyID
       /\ (Offered(KEY_E) /\ lookup = "accents" /\ activeDeadKey = "grave")
            => written' = TypeString(EGrave)]_vars

\* What SetDeadKey does on a re-arm: the accent the mapping names replaces the
\* armed one when the layout defines it, and the armed one stays otherwise.
C32_LastWinsWhenDefined ==
    [][/\ \A k \in NamedKeys :
            (Rearms(k) /\ Selected(k).DeadKeyID \in DOMAIN SnapshotLookup.DeadKeys)
            => activeDeadKey' = Selected(k).DeadKeyID
       /\ \A k \in NamedKeys :
            (Rearms(k) /\ Selected(k).DeadKeyID \notin DOMAIN SnapshotLookup.DeadKeys)
            => activeDeadKey' = activeDeadKey]_vars

\* The codes of the letter keys: the rows Q to P, A to L and Z to M.
LetterKeyCodes == (KEY_Q..KEY_P) \cup (KEY_A..KEY_L) \cup (KEY_Z..KEY_M)

\* FindKeyboards scans the devices call'.arg.
Scans == ~scanned /\ scanned' /\ call'.op = "FindKeyboards"

\* The device could be opened and named.
Openable(dev) == dev.opens /\ dev.name # NoName

\* C33: FindKeyboards returns exactly the openable devices that are capable of
\* EV_KEY and report at least one code of a letter key, without those whose
\* lowered name contains "asahi-map"; a device whose codes are all codes of
\* keys that are not letters is not returned; and every device opened and not
\* returned has been closed once.
C33_EnumerationReturnsLetterKeyboards ==
    [][LET hw == call'.arg IN
          Scans =>
             /\ keyboards' = {d \in Devices :
                                /\ Openable(hw[d])
                                /\ hw[d].evkey /\ hw[d].codes \cap LetterKeyCodes # {}
                                /\ ~Contains(ToLower(hw[d].name), AsahiMap)}
             /\ \A d \in Devices :
                   hw[d].codes \cap LetterKeyCodes = {} => d \notin keyboards'
             /\ \A d \in Devices :
                   (hw[d].opens /\ d \notin keyboards') => fdCloses'[d] = fdCloses[d] + 1]_vars

\* C34: when no key of the keyboard is held, no key is held on the synthetic
\* device: every key-down written has been followed by a key-up of its code.
\* This covers a remapped key that was held until it repeated and was then
\* released.
C34_NoKeyLeftStuck == phys = {} => held = {}

\* The modifiers among the codes s.
Modifiers(s) == {c \in s : IsModifier(c)}

\* C35: after the press of a key whose mapping was executed (a passthrough,
\* an injection, an activation or a composition, no write failing), the
\* modifiers held on the synthetic device are the modifiers other than the
\* trigger that are held on the keyboard; an injection with left Shift held
\* leaves left Shift held on the synthetic device.
C35_ModifiersRestoredAfterMapping ==
    [][\A k \in NamedKeys :
          (Handles(k, 1) /\ Remapping(last'.route))
          => Modifiers(held') = Modifiers(phys') \ {KEY_LEFTALT}]_vars

\* C36: SetLayout leaves interceptedKeys as it is, and the release of an
\* intercepted key handled by the enabled engine writes nothing and removes
\* the code, whatever layout is installed by then, also one without an entry
\* for the key.
C36_LayoutSwapKeepsPairing ==
    [][/\ last'.op = "SetLayout" => interceptedKeys' = interceptedKeys
       /\ \A k \in NamedKeys :
            (Handles(k, 0) /\ enabled /\ k \in interceptedKeys)
            => /\ written' = <<>>
               /\ interceptedKeys' = interceptedKeys \ {k}
               /\ last'.route = "release-swallowed"]_vars

\* C36 witness: the release of e was swallowed under the layout that has no
\* entry for e and no dead key, so e was intercepted before that layout was
\* installed.
C36_Witness ==
    /\ lookup = "typo"
    /\ LookupAlt(SnapshotLookup, "e") = Nil /\ LookupShiftAlt(SnapshotLookup, "e") = Nil
    /\ last.op = "event" /\ last.Code = KEY_E /\ last.Value = 0
    /\ last.route = "release-swallowed"
    /\ written = <<>>
    /\ KEY_E \notin interceptedKeys

\* The step handles an event and the call it makes returns an error.
Fails == last'.op = "event" /\ written' # <<>> /\ result'.err

\* What handleEvent writes for the event of the step when no write fails.
Planned ==
    LET ev == [Code |-> last'.Code, Value |-> last'.Value] IN
    handleEvent(UpdateFromEvent(keyState, ev), SnapshotEnabled, SnapshotLookup,
                activeDeadKey, interceptedKeys, ev).written

\* C37: when a write fails while an event is handled, the consumer stays at
\* its select, ready for the next event, and the error is logged; the key
\* whose mapping execution failed is marked intercepted; the release of an
\* intercepted key is swallowed and the code removed, after a failure as
\* well; and an event handled without a failure writes what handleEvent
\* writes.
C37_InjectionFailureKeepsConsumer ==
    [][/\ Fails => /\ cpc' = "select"
                   /\ [task |-> "consumer", err |-> HandlingError] \in errlog'
       /\ \A k \in NamedKeys :
            (Fails /\ Handles(k, 1) /\ Remapping(last'.route)) => k \in interceptedKeys'
       /\ \A k \in NamedKeys :
            (Handles(k, 0) /\ enabled /\ k \in interceptedKeys)
            => written' = <<>> /\ k \notin interceptedKeys'
       /\ (last'.op = "event" /\ ~Fails) => written' = Planned]_vars

\* C37 witness: the last call of the virtual keyboard was the passthrough of
\* 5 and it failed; the error was logged, and the consumer has since handled
\* the release of 5, which it swallowed.
C37_Witness ==
    /\ call.op = "PassthroughWithRAlt" /\ call.arg = KEY_5 /\ call.n > 0
    /\ result.err
    /\ [task |-> "consumer", err |-> HandlingError] \in errlog
    /\ cpc = "select"
    /\ last.op = "event" /\ last.Code = KEY_5 /\ last.Value = 0
    /\ last.route = "release-swallowed"
    /\ KEY_5 \notin interceptedKeys

\* C38: the layout the tray marks as current is the layout the handler uses
\* and the layout of the configuration file, after every selection in the
\* menu, also one of a layout that cannot be loaded.
C38_TrayLayoutIsEngineLayout == trayLayout = lookup /\ savedLayout = lookup

\* C39: interceptedKeys holds no modifier code, the trigger included; a code
\* enters it only by its own press, handled while the engine is enabled, that
\* either found an entry in the table selected with the trigger held or was
\* taken by the armed composer with the trigger not held; and an event that
\* is forwarded, swallowed or consumed adds no code.
C39_InterceptedOnlyByMappingOrComposer ==
    [][/\ \A c \in interceptedKeys' : ~IsModifier(c)
       /\ \A k \in InputCodes :
            (k \in interceptedKeys' /\ k \notin interceptedKeys)
            => /\ Handles(k, 1) /\ enabled
               /\ k \in DOMAIN KeyCodeToName
               /\ \/ /\ LeftAltPressed(keyState)
                     /\ Selected(k) # Nil
                     /\ last'.route \in {"passthrough", "arm", "unicode"}
                  \/ /\ ~LeftAltPressed(keyState)
                     /\ HasActiveDeadKey(activeDeadKey)
                     /\ last'.route = "deadkey"
       /\ last'.route \notin {"passthrough", "arm", "unicode", "deadkey"}
            => interceptedKeys' \subseteq interceptedKeys]_vars

\* C39 witness: 5 was intercepted through the table and e by the composer,
\* with left Shift pressed on the way and still held: the set holds 5 and e
\* and nothing else.
C39_Witness ==
    /\ interceptedKeys = {KEY_5, KEY_E}
    /\ keyState.LeftShift /\ ~keyState.LeftAlt
    /\ last.op = "event" /\ last.Code = KEY_E /\ last.Value = 1 /\ last.route = "deadkey"
====
